---- MODULE Spec2Model ----
(***************************************************************************)
(* Model of the host-lock coordinator of internal/host_lock.py (class      *)
(* HostLock) and of the two polling loops of internal/host_bot.py that     *)
(* drive it.                                                               *)
(*                                                                         *)
(* The HOST_CONTROL worksheet is the shared state: row 1 is the header,    *)
(* row 2 the HOST row, rows 3.. the queue.  Every HostLock instance keeps  *)
(* its own cache of the worksheet, its own is_host flag and its own        *)
(* throttle state.  Every public method of HostLock is one action: the     *)
(* method runs from its first store call to its return.                    *)
(*                                                                         *)
(* Time.  The code stores wall-clock timestamps and only ever compares     *)
(* "now - timestamp" (or "timestamp - now") with a constant.  The model    *)
(* stores that difference: an age in seconds for LAST_HEARTBEAT,           *)
(* _last_read_timestamp and _last_cleanup_ts, the remaining seconds for    *)
(* TRANSFER_SCHEDULED_AT and _cooldown_until.  The action Tick lets time   *)
(* pass; ages stop growing at AgeCap, beyond every threshold of the code.  *)
(* Time passes between methods, not inside one (the sleeps inside a method *)
(* are a few seconds, below the resolution of Tick).                       *)
(*                                                                         *)
(* Columns.  A row keeps IDENTITY (id), LAST_HEARTBEAT (hb), STATUS (st),  *)
(* TRANSFER_SCHEDULED_AT (tat), TRANSFER_TO (tto) and QUEUE_POSITION (qp). *)
(* HOSTNAME, USER, IP, PID and STARTED_AT are written together with        *)
(* IDENTITY, copied together with it and never read by HostLock.           *)
(***************************************************************************)
EXTENDS Integers, Sequences, FiniteSets, TLC

VARIABLES
    ws,        \* the HOST_CONTROL worksheet: [host |-> row 2, queue |-> rows 3..]
    history,   \* the TRANSFER_HISTORY worksheet: the rows appended so far
    hl,        \* hl[p]: the fields of process p's HostLock instance
    bot,       \* bot[p]: process p of host_bot.py: started, alive, bot_in_monitoring_mode, sleep
    ret,       \* the last method call that returned: [p, op, arg, res]
    lim        \* what is left of the budgets that bound a run: calls, ticks, fails
               \* (reads that fail), wfails (writes that fail)

vars == <<ws, history, hl, bot, ret, lim>>

----------------------------------------------------------------------------
(* Program constants                                                       *)

HOST_DEAD_TIMEOUT == 90
OFFLINE_TIMEOUT == 180
MAX_TRANSFER_ATTEMPTS == 3
MIN_CLEANUP_INTERVAL == 60
MAX_QUOTA_BACKOFF == 120
CACHE_TTL == 30
POLL_INTERVAL == 15
HEARTBEAT_INTERVAL == 60
MAX_QUOTA_STRIKES == 10
QUOTA_COOLDOWN_BASE == 60
QUOTA_COOLDOWN_CAP == 900
READ_ATTEMPTS == 3

STATUS_HOST == "HOST"
STATUS_WAITING == "WAITING"
STATUS_OFFLINE == "OFFLINE"

----------------------------------------------------------------------------
(* Bounds of the model                                                     *)

\* Method calls in a run of Spec.
MaxCalls == 4
\* Tick steps in a run of Spec.
MaxTicks == 2

\* The budgets of the other specifications.
SameCalls == 6
SameTicks == 1
TwinCalls == 5
TwinTicks == 2
XferCalls == 6
XferTicks == 1
QueueCalls == 7
QueueTicks == 1
FailCalls == 3
FailTicks == 1
FailReads == 3
WriteCalls == 4
WriteTicks == 1
WriteFails == 3
GuardCalls == 4
GuardTicks == 1
EditCalls == 5
EditTicks == 1
QuotaCalls == 12
QuotaTicks == 8
CacheCalls == 4
CacheTicks == 1
CacheReads == 3
NotifyCalls == 4
NotifyTicks == 1
NotifyFails == 2
ForceCalls == 5
StaleCalls == 5
MaxMachineLen == 2
StaleTicks == 2
ForceTicks == 1

\* The empty cell of a time column, and a timestamp of 0 (the epoch).
NoTime == -1
\* Ages stop growing here: one Tick beyond the largest threshold.
AgeCap == OFFLINE_TIMEOUT + POLL_INTERVAL

----------------------------------------------------------------------------
(* Processes and identities (HostLock.__init__)                            *)

Procs == {"P1", "P2", "P3", "P4"}

\* user@hostname as a sequence of characters.  P1 and P4 run on one machine.
machine_id(p) == CASE p = "P2" -> <<"b">> [] p = "P3" -> <<"c">> [] OTHER -> <<"a">>

pid(p) == CASE p = "P1" -> "1" [] p = "P2" -> "2" [] p = "P3" -> "3" [] OTHER -> "4"

\* f"{machine_id} (PID:{pid})"; the empty string is <<>>.
identity(p) == machine_id(p) \o <<" (PID:", pid(p), ")">>

NoId == <<>>

\* Python's "needle in hay" on strings.
Contains(hay, needle) ==
    \E i \in 0..(Len(hay) - Len(needle)) : SubSeq(hay, i + 1, i + Len(needle)) = needle

_is_same_machine(p, ident) == ident # NoId /\ Contains(ident, machine_id(p))

\* identity.strip().split(" (PID:")[0]; <<>> stands for None.
_extract_machine_id(ident) ==
    IF \E i \in 1..Len(ident) : ident[i] = " (PID:"
    THEN LET i == CHOOSE k \in 1..Len(ident) :
                      /\ ident[k] = " (PID:"
                      /\ \A j \in 1..(k - 1) : ident[j] # " (PID:"
         IN  SubSeq(ident, 1, i - 1)
    ELSE ident

----------------------------------------------------------------------------
(* Rows and the worksheet (gspread calls of HostLock)                      *)

Row(id, hb, st, tat, tto, qp) ==
    [id |-> id, hb |-> hb, st |-> st, tat |-> tat, tto |-> tto, qp |-> qp]

\* A QUEUE_POSITION cell: str(n), or the empty string.
Str(n) == <<n>>
NoPos == <<>>

\* ["", "", "", "", "", "", "", "", "", "", ""]
EmptyRow == Row(NoId, NoTime, "", NoTime, NoId, NoPos)

\* Trailing empty rows do not exist for get_all_values / append_row.
RECURSIVE TrimQueue(_)
TrimQueue(q) ==
    IF q # <<>> /\ q[Len(q)] = EmptyRow THEN TrimQueue(SubSeq(q, 1, Len(q) - 1)) ELSE q

Sheet(h, q) == [host |-> h, queue |-> TrimQueue(q)]

EmptySheet == Sheet(EmptyRow, <<>>)

\* ws.get_all_values(): data[0] is the header, data[1] the HOST row, data[i] for
\* i >= 2 the queue row i - 1; the list ends at the last non-empty row.
\* hdr is FALSE for the empty list [] a failed read is turned into.
Snapshot(w) == [host |-> w.host, queue |-> w.queue, hdr |-> TRUE]

EmptyList == [host |-> EmptyRow, queue |-> <<>>, hdr |-> FALSE]

\* len(data)
DataLen(d) ==
    IF ~d.hdr THEN 0
    ELSE IF d.host = EmptyRow /\ d.queue = <<>> THEN 1
    ELSE 2 + Len(d.queue)

\* data[i], 1 <= i < len(data)
DataRow(d, i) == IF i = 1 THEN d.host ELSE d.queue[i - 1]

\* ws.update("A2:K2", [row])
UpdateHostRow(w, row) == Sheet(row, w.queue)

\* Row i of data (sheet row i + 1) with rows beyond the end taken as empty.
Padded(q, n) == [k \in 1..n |-> IF k <= Len(q) THEN q[k] ELSE EmptyRow]

\* One cell of sheet row i + 1 (i = 1: the HOST row) set by update / batch_update.
SetStatus(w, i, st) ==
    IF i = 1 THEN Sheet([w.host EXCEPT !.st = st], w.queue)
    ELSE LET n == IF i - 1 > Len(w.queue) THEN i - 1 ELSE Len(w.queue)
         IN  Sheet(w.host, [Padded(w.queue, n) EXCEPT ![i - 1].st = st])

SetPosition(w, i, qp) ==
    IF i = 1 THEN Sheet([w.host EXCEPT !.qp = qp], w.queue)
    ELSE LET n == IF i - 1 > Len(w.queue) THEN i - 1 ELSE Len(w.queue)
         IN  Sheet(w.host, [Padded(w.queue, n) EXCEPT ![i - 1].qp = qp])

SetHeartbeat(w, i) ==
    IF i = 1 THEN Sheet([w.host EXCEPT !.hb = 0], w.queue)
    ELSE LET n == IF i - 1 > Len(w.queue) THEN i - 1 ELSE Len(w.queue)
         IN  Sheet(w.host, [Padded(w.queue, n) EXCEPT ![i - 1].hb = 0])

\* ws.update("I2:J2", [[transfer_at, target]])
SetTransfer(w, tat, tto) == Sheet([w.host EXCEPT !.tat = tat, !.tto = tto], w.queue)

\* ws.append_row(row): the row after the last non-empty row of the sheet.
AppendRow(w, row) ==
    IF w.host = EmptyRow /\ w.queue = <<>> THEN Sheet(row, <<>>)
    ELSE Sheet(w.host, Append(w.queue, row))

\* ws.delete_rows(i + 1) for a queue row (i >= 2): the rows below move up.
DeleteRows(w, i) ==
    IF i - 1 > Len(w.queue) THEN w
    ELSE Sheet(w.host, SubSeq(w.queue, 1, i - 2) \o SubSeq(w.queue, i, Len(w.queue)))

\* ws.insert_row(row, i + 1) for i >= 2: the rows from there on move down.
InsertRow(w, row, i) ==
    LET q == Padded(w.queue, IF i - 2 > Len(w.queue) THEN i - 2 ELSE Len(w.queue))
    IN  Sheet(w.host, SubSeq(q, 1, i - 2) \o <<row>> \o SubSeq(q, i - 1, Len(q)))

----------------------------------------------------------------------------
(* The HostLock instance of a process and the context of a running method  *)

\* SheetsManager.__init__: the fields of its quota protection.
\* quota_cooldown_until is the time left until _quota_cooldown_until (0: none).
NewSheetsManager == [quota_cooldown_until |-> 0, quota_strikes |-> 0]

\* HostLock.__init__: the fields the methods read.  last_read_data = EmptyList is
\* None; read_age = NoTime is _last_read_timestamp = 0; cooldown is the time left
\* until _cooldown_until (0: none); quota_backoff is in milliseconds; cleanup_age
\* is the time since _last_cleanup_ts; sheets is self.sheets.
NewHostLock ==
    [is_host |-> FALSE,
     last_read_data |-> EmptyList,
     read_age |-> NoTime,
     cooldown |-> 0,
     quota_backoff |-> 1500,
     cleanup_age |-> AgeCap,
     sheets |-> NewSheetsManager]

\* The result of a method that has not returned one.
NoRes == [success |-> FALSE, is_host |-> FALSE, msg |-> "", queue_position |-> 0,
          removed |-> <<>>, data |-> EmptyList]

Res(success, is_host, msg, qpos) ==
    [success |-> success, is_host |-> is_host, msg |-> msg, queue_position |-> qpos,
     removed |-> <<>>, data |-> EmptyList]

\* self._error_result(message)
_error_result == Res(FALSE, FALSE, "error", 0)

\* What a method of process p works on: the worksheets, its own instance (me),
\* the outcomes of the store reads to come (orc: none left means the read
\* succeeds), the outcomes of the store writes of a transfer to come (wrc, the
\* same way) and how many of them have failed, what notify_callback does when it
\* is called (cb) and what has become of the notification (note), the data and
\* value of its last read, how many store reads its guarded reads have issued
\* (reads), and its result.
Ctx(p, orc) ==
    [ws |-> ws, history |-> history, me |-> hl[p], orc |-> orc,
     wrc |-> <<>>, wfailed |-> 0, cb |-> "ok", note |-> "none",
     data |-> EmptyList, val |-> EmptyList, raised |-> FALSE, flag |-> FALSE,
     tries |-> 0, reads |-> 0, res |-> NoRes]

\* The store write to come raises an exception.
WriteRaises(s) == s.wrc # <<>> /\ Head(s.wrc) # "ok"

\* The store write to come has been issued.
Written(s) ==
    [s EXCEPT !.wrc = IF @ = <<>> THEN <<>> ELSE Tail(@),
              !.wfailed = IF WriteRaises(s) THEN @ + 1 ELSE @]

\* The outcomes of one store read: it succeeds, fails with a quota error (429;
\* the jitter drawn is the least or the largest), or fails with another error.
ReadOutcomes == {"ok", "quota0", "quota1", "error"}

----------------------------------------------------------------------------
(* ResilientStoreAccessor: cache, cooldown, backoff                        *)

\* self._last_read_timestamp = 0; self._last_read_data = None
_invalidate_cache(s) ==
    [s EXCEPT !.me.read_age = NoTime, !.me.last_read_data = EmptyList]

\* The value of a singleton set.  A method is written as the steps of its code:
\* The({ rest : x \in {step} }) is "x = step" followed by "rest", with the step
\* taken once.
The(S) == CHOOSE y \in S : TRUE

Min(a, b) == IF a < b THEN a ELSE b
Max(a, b) == IF a > b THEN a ELSE b

\* Seconds, rounded up to the resolution of Tick: "now < _cooldown_until" is
\* evaluated at multiples of POLL_INTERVAL only.
CeilToTick(ms) ==
    ((ms + 1000 * POLL_INTERVAL - 1) \div (1000 * POLL_INTERVAL)) * POLL_INTERVAL

\* _quota_backoff = min(max(_quota_backoff, 1.5) * 1.6, MAX_QUOTA_BACKOFF)
NextBackoff(b) == Min((Max(b, 1500) * 16) \div 10, 1000 * MAX_QUOTA_BACKOFF)

\* cooldown = min(_quota_backoff + jitter, MAX_QUOTA_BACKOFF), jitter in
\* [0, 0.35 * _quota_backoff]: its two ends.
CooldownMs(b, top) ==
    Min(b + (IF top THEN (35 * b) \div 100 ELSE 0), 1000 * MAX_QUOTA_BACKOFF)

_apply_quota_cooldown(me, top) ==
    LET b == NextBackoff(me.quota_backoff)
    IN  [me EXCEPT !.quota_backoff = b,
                   !.cooldown = Max(me.cooldown, CeilToTick(CooldownMs(b, top)))]

\* SheetsManager._gspread_call, quota branch: the cooldown of strike n and the
\* time until _quota_cooldown_until, in milliseconds; the jitter drawn from
\* [0, 0.25 * cooldown] is its least or its largest value.
StrikeCooldown(n) == Min(QUOTA_COOLDOWN_BASE * 2^(n - 1), QUOTA_COOLDOWN_CAP)

StrikeCooldownMs(n, top) ==
    1000 * StrikeCooldown(n) + (IF top THEN 250 * StrikeCooldown(n) ELSE 0)

\* SheetsManager._gspread_call(fn) without cache_key: fn is not called while the
\* cooldown runs ("cooldown"); fn returns ("ok"), or raises a quota error
\* ("quota"), which ends the retries.  s.res.queue_position carries the time
\* the call has added to the cooldown, in milliseconds.
_gspread_call(s, outcome, top) ==
    IF s.me.sheets.quota_cooldown_until > 0
    THEN [s EXCEPT !.raised = TRUE, !.res = Res(FALSE, s.me.is_host, "cooldown", 0)]
    ELSE IF outcome = "ok"
    THEN [s EXCEPT !.me.sheets.quota_strikes = 0,
                   !.res = Res(TRUE, s.me.is_host, "ok", 0)]
    ELSE The({ [s EXCEPT !.me.sheets.quota_strikes = n,
                         !.me.sheets.quota_cooldown_until =
                             CeilToTick(StrikeCooldownMs(n, top)),
                         !.raised = TRUE,
                         !.res = Res(FALSE, s.me.is_host, "quota",
                                     StrikeCooldownMs(n, top))]
               : n \in {Min(s.me.sheets.quota_strikes + 1, MAX_QUOTA_STRIKES)} })

\* The loop of _read_with_backoff from attempt n on.  val = EmptyList is None.
RECURSIVE ReadAttempts(_, _)
ReadAttempts(s, n) ==
    IF n > READ_ATTEMPTS THEN [s EXCEPT !.val = EmptyList, !.raised = FALSE]
    ELSE LET o == IF s.orc = <<>> THEN "ok" ELSE Head(s.orc)
             s1 == [s EXCEPT !.orc = IF s.orc = <<>> THEN <<>> ELSE Tail(s.orc),
                             !.reads = @ + 1]
         IN  CASE o = "ok" -> [s1 EXCEPT !.val = Snapshot(s.ws), !.raised = FALSE]
               [] o = "error" -> [s1 EXCEPT !.val = EmptyList, !.raised = TRUE]
               [] OTHER ->
                    The({ IF s2.me.last_read_data # EmptyList
                          THEN [s2 EXCEPT !.val = EmptyList, !.raised = FALSE]
                          ELSE ReadAttempts(s2, n + 1)
                          : s2 \in {[s1 EXCEPT !.me =
                                        _apply_quota_cooldown(s1.me, o = "quota1")]} })

_read_with_backoff(s) ==
    IF s.me.cooldown > 0 /\ s.me.last_read_data # EmptyList
    THEN [s EXCEPT !.val = EmptyList, !.raised = FALSE]
    ELSE ReadAttempts(s, 1)

\* (now - self._last_read_timestamp) > self.CACHE_TTL
CacheExpired(me) == me.read_age = NoTime \/ me.read_age > CACHE_TTL

\* _get_cached_data(ws, force_refresh): the data returned is s.data.
_get_cached_data(s, force_refresh) ==
    IF s.me.cooldown > 0 /\ s.me.last_read_data # EmptyList
    THEN [s EXCEPT !.data = s.me.last_read_data]
    ELSE IF force_refresh \/ CacheExpired(s.me)
    THEN The({ IF ~r.raised /\ r.val # EmptyList
               THEN [r EXCEPT !.me.last_read_data = r.val, !.me.read_age = 0,
                              !.data = r.val]
               ELSE [r EXCEPT !.data = r.me.last_read_data]
               : r \in {_read_with_backoff(s)} })
    ELSE [s EXCEPT !.data = s.me.last_read_data]

\* _notify_event letting the failure of the callback out.
NotifyEventRaising(s) ==
    IF s.cb = "none" THEN s
    ELSE [s EXCEPT !.note = IF s.cb = "ok" THEN "sent" ELSE "raised"]

\* _notify_event(event_type, message): both "try" blocks catch what the
\* callback or the event loop raises.  cb = "none": no notify_callback is set.
_notify_event(s) ==
    IF s.cb = "none" THEN s
    ELSE [s EXCEPT !.note = IF s.cb = "ok" THEN "sent" ELSE "failed"]

\* A call of _notify_event inside the "try" of a method whose "except" returns
\* err: what an exception out of _notify_event would lead to.
Notified(s, err) ==
    The({ IF n.note = "raised" THEN [n EXCEPT !.res = err] ELSE n
          : n \in {_notify_event(s)} })

----------------------------------------------------------------------------
(* Helpers of HostLock                                                     *)

\* The indices i of data with 2 <= i < len(data).
QueueIdx(d) == 2..(DataLen(d) - 1)

\* The least index of a non-empty set of integers.
First(S) == CHOOSE i \in S : \A j \in S : i <= j

\* _get_my_queue_position(data): 0 when no queue row is of this machine.
_get_my_queue_position(p, d) ==
    LET mine == {i \in QueueIdx(d) : _is_same_machine(p, DataRow(d, i).id)}
    IN  IF mine = {} THEN 0 ELSE First(mine) - 1

\* The batch_update calls of a list of queue positions, row by row.
RECURSIVE WritePositions(_, _, _)
WritePositions(w, d, i) ==
    IF i >= DataLen(d) THEN w
    ELSE WritePositions(IF DataRow(d, i).id # NoId THEN SetPosition(w, i, Str(i - 1)) ELSE w,
                        d, i + 1)

\* _update_queue_positions(ws)
_update_queue_positions(s) ==
    The({ IF \A i \in QueueIdx(r.data) : DataRow(r.data, i).id = NoId THEN r
          ELSE IF WriteRaises(r) THEN Written(r)
          ELSE [Written(r) EXCEPT !.ws = WritePositions(r.ws, r.data, 2)]
          : r \in {_get_cached_data(s, TRUE)} })

\* _update_my_status(ws, status, queue_position); queue_position 0 is None.
_update_my_status(s, p, status, queue_position) ==
    The({ The({ IF mine = {} THEN r
                ELSE The({ [r EXCEPT !.ws = IF queue_position # 0
                                            THEN SetPosition(w1, First(mine), Str(queue_position))
                                            ELSE w1]
                           : w1 \in {SetStatus(r.ws, First(mine), status)} })
                : mine \in {{i \in 1..(DataLen(r.data) - 1) :
                               _is_same_machine(p, DataRow(r.data, i).id)}} })
          : r \in {_get_cached_data(s, TRUE)} })

\* _update_heartbeat(ws): ws.update("G2", [[timestamp]])
_update_heartbeat(s) == _invalidate_cache([s EXCEPT !.ws = SetHeartbeat(s.ws, 1)])

\* _become_host(ws, forced)
_become_host(s, p, forced) ==
    The({ Notified(x, _error_result)
          : x \in {[_invalidate_cache([s EXCEPT !.ws = UpdateHostRow(s.ws,
                           Row(identity(p), 0, STATUS_HOST, NoTime, NoId, NoPos))])
                      EXCEPT !.me.is_host = TRUE,
                             !.res = Res(TRUE, TRUE,
                                         IF forced THEN "forced" ELSE "acquired", 0)]} })

\* A _join_queue that counts the header row into the position.
JoinQueueCountingHeader(s, p) ==
    The({ [_invalidate_cache([r EXCEPT !.ws = AppendRow(r.ws,
               Row(identity(p), 0, STATUS_WAITING, NoTime, NoId, Str(DataLen(r.data))))])
             EXCEPT !.res = Res(TRUE, FALSE, "queued", DataLen(r.data))]
          : r \in {_get_cached_data(s, TRUE)} })

\* _join_queue up to "position = len(data) - 1": the position is left in
\* res.queue_position, the call has not returned ("joining").
JoinQueueRead(s, p) ==
    The({ [r EXCEPT !.res = Res(TRUE, FALSE, "joining", DataLen(r.data) - 1)]
          : r \in {_get_cached_data(s, TRUE)} })

\* _join_queue from "ws.append_row" on, with the position computed before.
JoinQueueAppend(s, p, position) ==
    The({ Notified(x, _error_result)
          : x \in {[_invalidate_cache([s EXCEPT !.ws = AppendRow(s.ws,
                       Row(identity(p), 0, STATUS_WAITING, NoTime, NoId, Str(position)))])
                     EXCEPT !.res = Res(TRUE, FALSE, "queued", position)]} })

\* _join_queue(ws, current_host)
_join_queue(s, p) ==
    The({ JoinQueueAppend(r, p, r.res.queue_position) : r \in {JoinQueueRead(s, p)} })

----------------------------------------------------------------------------
(* LeaderElector: try_acquire / release / heartbeat / takeover              *)

\* The machine of an earlier row of data is in "seen" when row i is reached.
IsDuplicate(d, i) ==
    LET key == _extract_machine_id(DataRow(d, i).id)
    IN  /\ key # NoId
        /\ \E j \in 2..(i - 1) : /\ DataRow(d, j).id # NoId
                                 /\ _extract_machine_id(DataRow(d, j).id) = key

\* to_delete of _cleanup_all: duplicates by machine, and rows that are offline.
CleanupDeletes(d) ==
    {i \in QueueIdx(d) :
        /\ DataRow(d, i).id # NoId
        /\ \/ IsDuplicate(d, i)
           \/ DataRow(d, i).hb # NoTime /\ DataRow(d, i).hb > OFFLINE_TIMEOUT}

\* The rows _cleanup_all marks OFFLINE with update_cell.
CleanupMarks(d) ==
    {i \in QueueIdx(d) :
        /\ DataRow(d, i).id # NoId
        /\ ~IsDuplicate(d, i)
        /\ DataRow(d, i).hb # NoTime
        /\ DataRow(d, i).hb <= OFFLINE_TIMEOUT
        /\ DataRow(d, i).hb > HOST_DEAD_TIMEOUT
        /\ DataRow(d, i).st \notin {STATUS_OFFLINE, STATUS_HOST}}

RECURSIVE MarkOffline(_, _)
MarkOffline(w, S) ==
    IF S = {} THEN w
    ELSE LET i == First(S) IN MarkOffline(SetStatus(w, i, STATUS_OFFLINE), S \ {i})

\* for row in sorted(set(to_delete), reverse=True): ws.delete_rows(row)
RECURSIVE DeleteReversed(_, _)
DeleteReversed(w, S) ==
    IF S = {} THEN w
    ELSE LET i == CHOOSE k \in S : \A j \in S : j <= k
         IN  DeleteReversed(DeleteRows(w, i), S \ {i})

\* _cleanup_all(ws, data, force): s.flag is the value returned.
_cleanup_all(s, data, force) ==
    IF ~force /\ s.me.cleanup_age < MIN_CLEANUP_INTERVAL THEN [s EXCEPT !.flag = FALSE]
    ELSE The({
         IF /\ DataLen(data) >= 2
            /\ data.host.hb # NoTime
            /\ data.host.hb > HOST_DEAD_TIMEOUT
         THEN [_invalidate_cache([s1 EXCEPT !.ws = UpdateHostRow(s1.ws, EmptyRow)])
                  EXCEPT !.flag = TRUE]
         ELSE The({ IF marks = {} /\ dels = {} THEN [s1 EXCEPT !.flag = FALSE]
                    ELSE The({ [_update_queue_positions(s2) EXCEPT !.flag = TRUE]
                               : s2 \in {_invalidate_cache([s1 EXCEPT !.ws =
                                     DeleteReversed(MarkOffline(s1.ws, marks), dels)])} })
                    : marks \in {CleanupMarks(data)}, dels \in {CleanupDeletes(data)} })
         : s1 \in {[s EXCEPT !.me.cleanup_age = 0]} })

\* The body of try_acquire_host(force).
\* s1: after "data = self._get_cached_data(ws)"; s2: after _cleanup_all; s3: after
\* "data = self._get_cached_data(ws, force_refresh=cleaned or force)".
\* whole: _join_queue runs to its return; otherwise it stops after the read of
\* the position, before other processes run.
TryAcquireHostJoining(s, p, force, whole) ==
    The({ The({
      IF my_position > 0
      THEN [_update_my_status(s1, p, STATUS_WAITING, my_position)
               EXCEPT !.res = Res(TRUE, FALSE, "already_queued", my_position)]
      ELSE The({ The({ The({
             IF DataLen(s3.data) < 2 THEN _become_host(s3, p, FALSE)
             ELSE IF current_host = NoId THEN _become_host(s3, p, FALSE)
             ELSE IF _is_same_machine(p, current_host)
             THEN The({ [_update_my_status(s4, p, STATUS_HOST, 0)
                            EXCEPT !.res = Res(TRUE, TRUE, "recovered", 0)]
                        : s4 \in {_update_heartbeat([s3 EXCEPT !.me.is_host = TRUE])} })
             ELSE IF force THEN _become_host(s3, p, TRUE)
             ELSE IF whole THEN _join_queue(s3, p)
             ELSE JoinQueueRead(s3, p)
             : current_host \in {s3.data.host.id} })
             : s3 \in {_get_cached_data(s2, s2.flag \/ force)} })
             : s2 \in {_cleanup_all(s1, s1.data, force)} })
      : my_position \in {_get_my_queue_position(p, s1.data)} })
      : s1 \in {_get_cached_data(s, FALSE)} })

\* try_acquire_host(force)
try_acquire_host(s, p, force) == TryAcquireHostJoining(s, p, force, TRUE)

\* release_host() clearing only the identity cell of the HOST row.
ReleaseHostIdentityOnly(s) ==
    IF ~s.me.is_host THEN [s EXCEPT !.res = Res(TRUE, FALSE, "not_host", 0)]
    ELSE [_invalidate_cache([s EXCEPT !.ws =
                                UpdateHostRow(s.ws, [s.ws.host EXCEPT !.id = NoId])])
             EXCEPT !.me.is_host = FALSE, !.res = Res(TRUE, FALSE, "released", 0)]

\* release_host()
release_host(s) ==
    IF ~s.me.is_host THEN [s EXCEPT !.res = Res(TRUE, FALSE, "not_host", 0)]
    ELSE The({ Notified(x, Res(FALSE, FALSE, "error", 0))
               : x \in {[_invalidate_cache([s EXCEPT !.ws = UpdateHostRow(s.ws, EmptyRow)])
                           EXCEPT !.me.is_host = FALSE,
                                  !.res = Res(TRUE, FALSE, "released", 0)]} })

\* update_heartbeat() without the check of is_host.
UpdateHeartbeatUnguarded(s) ==
    [_update_heartbeat(s) EXCEPT !.res = Res(TRUE, TRUE, "heartbeat", 0)]

\* update_heartbeat()
update_heartbeat(s) ==
    IF ~s.me.is_host THEN [s EXCEPT !.res = Res(FALSE, FALSE, "not_host", 0)]
    ELSE [_update_heartbeat(s) EXCEPT !.res = Res(TRUE, TRUE, "heartbeat", 0)]

\* get_transfer_status(): success is "scheduled", flag is "ready_to_execute",
\* queue_position carries remaining_seconds.
get_transfer_status(s) ==
    The({ IF DataLen(r.data) < 2 \/ r.data.host.tat = NoTime
          THEN [r EXCEPT !.res = Res(FALSE, FALSE, "not_scheduled", 0), !.flag = FALSE]
          ELSE [r EXCEPT !.res = Res(TRUE, FALSE, "scheduled", Max(0, r.data.host.tat)),
                         !.flag = (r.data.host.tat <= 0)]
          : r \in {_get_cached_data(s, FALSE)} })

\* get_host_info(): the read it makes; CurrentHost(data) is info["current_host"].
get_host_info(s) == _get_cached_data(s, FALSE)

CurrentHost(d) == IF DataLen(d) < 2 THEN NoId ELSE d.host.id

----------------------------------------------------------------------------
(* TransferScheduler                                                       *)

\* _log_transfer_history(from, to, reason, success): one row appended, unless
\* append_row raises (the exception is logged and dropped).
_log_transfer_history(s, from, to, reason, success) ==
    IF WriteRaises(s) THEN Written(s)
    ELSE [Written(s) EXCEPT !.history = Append(s.history,
            [from |-> from, to |-> to, reason |-> reason,
             status |-> IF success THEN "SUCCESS" ELSE "FAILED"])]

Auto == <<"AUTO">>

\* The HOST row a transfer writes from the candidate's queue row.
PromotedRow(next_bot) == Row(next_bot.id, 0, STATUS_HOST, NoTime, NoId, NoPos)

\* A transfer that leaves the queue row of the candidate in place.
TransferKeepingQueueRow(s, p, i, reason) ==
    The({ [_log_transfer_history(_invalidate_cache(s1), identity(p),
                                 DataRow(s.data, i).id, reason, TRUE)
              EXCEPT !.me.is_host = FALSE, !.raised = FALSE,
                     !.res = Res(TRUE, FALSE, "transferred", 0)]
          : s1 \in {[s EXCEPT !.ws = UpdateHostRow(s.ws, PromotedRow(DataRow(s.data, i)))]} })

\* "Ejecutar traspaso" of execute_scheduled_transfer and of transfer_to: data[i]
\* becomes HOST.  ws.update("A2:K2") and ws.delete_rows raise to the caller
\* (raised = TRUE) and leave what has been written before; is_host is cleared
\* after the event has been notified.
DoTransfer(s, p, i, reason) ==
    The({ IF WriteRaises(s) THEN [Written(s) EXCEPT !.raised = TRUE]
          ELSE The({
            IF WriteRaises(s1) THEN [Written(s1) EXCEPT !.raised = TRUE]
            ELSE The({ The({ The({ The({
                IF n.note = "raised" THEN [n EXCEPT !.raised = TRUE]
                ELSE [n EXCEPT !.me.is_host = FALSE, !.raised = FALSE,
                               !.res = Res(TRUE, FALSE, "transferred", 0)]
                : n \in {_notify_event(s4)} })
                : s4 \in {_log_transfer_history(_invalidate_cache(s3), identity(p),
                                                next_bot.id, reason, TRUE)} })
                : s3 \in {_update_queue_positions(s2)} })
                : s2 \in {[Written(s1) EXCEPT !.ws = DeleteRows(s1.ws, i)]} })
            : s1 \in {[Written(s) EXCEPT !.ws = UpdateHostRow(s.ws, PromotedRow(next_bot))]} })
          : next_bot \in {DataRow(s.data, i)} })

\* "if not success" of execute_scheduled_transfer; when ws.update("I2:J2") raises,
\* the method returns False from its outer "except".
TransferFailed(s, p, target) ==
    IF WriteRaises(s)
    THEN [Written(s) EXCEPT !.raised = FALSE, !.res = Res(FALSE, s.me.is_host, "error", 0)]
    ELSE The({ The({ The({
        Notified(x, Res(FALSE, x.me.is_host, "error", 0))
        : x \in {[s2 EXCEPT !.raised = FALSE,
                            !.res = Res(FALSE, s2.me.is_host, "transfer_failed", 0)]} })
        : s2 \in {_log_transfer_history(s1, identity(p),
                                        IF target # NoId THEN target ELSE Auto,
                                        "SCHEDULED", FALSE)} })
        : s1 \in {_invalidate_cache([Written(s) EXCEPT !.ws = SetTransfer(s.ws, NoTime, NoId)])} })

\* A next-in-queue transfer that takes the first row, whatever its heartbeat.
ViableWhateverAge(d) == {i \in QueueIdx(d) : DataRow(d, i).id # NoId}

\* The rows a next-in-queue transfer may take: alive by their heartbeat.
Viable(d) ==
    {i \in QueueIdx(d) : /\ DataRow(d, i).id # NoId
                         /\ DataRow(d, i).hb # NoTime
                         /\ DataRow(d, i).hb <= OFFLINE_TIMEOUT}

\* The while loop of execute_scheduled_transfer after "attempts" attempts.
RECURSIVE TransferLoop(_, _, _, _)

\* The end of an attempt that reached "Ejecutar traspaso" with row i: success, or
\* the "except" of the loop, which reads again when attempts are left.
AttemptTransfer(s, p, target, attempts, i) ==
    The({ IF ~t.raised THEN t
          ELSE IF attempts + 1 < MAX_TRANSFER_ATTEMPTS
          THEN The({ TransferLoop(r, p, target, attempts + 1)
                     : r \in {_get_cached_data([t EXCEPT !.raised = FALSE], TRUE)} })
          ELSE TransferLoop(t, p, target, attempts + 1)
          : t \in {DoTransfer(s, p, i, "SCHEDULED")} })

\* An iteration whose fallback from a missing target to the next in queue does
\* not count as an attempt.
TransferIterationFreeFallback(s, p, target, attempts) ==
    IF target # NoId
    THEN The({ IF found = {}
               THEN The({ TransferLoop(r, p, NoId, attempts)
                          : r \in {_get_cached_data(s, TRUE)} })
               ELSE AttemptTransfer(s, p, target, attempts, First(found))
               : found \in {{i \in QueueIdx(s.data) : DataRow(s.data, i).id = target}} })
    ELSE IF Viable(s.data) = {}
         THEN IF attempts + 1 < MAX_TRANSFER_ATTEMPTS
              THEN The({ TransferLoop(r, p, target, attempts + 1)
                         : r \in {_get_cached_data(s, TRUE)} })
              ELSE TransferFailed(s, p, target)
         ELSE AttemptTransfer(s, p, target, attempts, First(Viable(s.data)))

\* One iteration of the while loop, entered after "attempts" attempts: the
\* attempt it makes is attempt number attempts + 1.
TransferIteration(s, p, target, attempts) ==
    IF target # NoId
    THEN The({ IF found = {}
               THEN The({ TransferLoop(r, p, NoId, attempts + 1)
                          : r \in {_get_cached_data(s, TRUE)} })
               ELSE AttemptTransfer(s, p, target, attempts, First(found))
               : found \in {{i \in QueueIdx(s.data) : DataRow(s.data, i).id = target}} })
    ELSE IF Viable(s.data) = {}
         THEN IF attempts + 1 < MAX_TRANSFER_ATTEMPTS
              THEN The({ TransferLoop(r, p, target, attempts + 1)
                         : r \in {_get_cached_data(s, TRUE)} })
              ELSE TransferFailed(s, p, target)
         ELSE AttemptTransfer(s, p, target, attempts, First(Viable(s.data)))

\* "while attempts < self.MAX_TRANSFER_ATTEMPTS and not success": s.tries counts
\* the iterations the loop has entered.
TransferLoop(s, p, target, attempts) ==
    IF attempts >= MAX_TRANSFER_ATTEMPTS THEN TransferFailed(s, p, target)
    ELSE The({ TransferIteration(s1, p, target, attempts)
               : s1 \in {[s EXCEPT !.tries = @ + 1]} })

\* execute_scheduled_transfer(): res.success is the value returned.
execute_scheduled_transfer(s, p) ==
    IF ~s.me.is_host THEN [s EXCEPT !.res = Res(FALSE, FALSE, "not_host", 0)]
    ELSE The({ IF DataLen(r.data) < 2
               THEN [r EXCEPT !.res = Res(FALSE, r.me.is_host, "error", 0)]
               ELSE TransferLoop(r, p, r.data.host.tto, 0)
               : r \in {_get_cached_data(s, TRUE)} })

\* check_and_takeover_if_dead(): res.success is the value returned.
check_and_takeover_if_dead(s, p) ==
    IF s.me.is_host
    THEN The({ IF t.res.success /\ t.flag
               THEN The({ IF e.res.success THEN [e EXCEPT !.res.success = FALSE]
                          ELSE update_heartbeat(e)
                          : e \in {execute_scheduled_transfer(t, p)} })
               ELSE update_heartbeat(t)
               : t \in {get_transfer_status(s)} })
    ELSE The({ IF r.res.is_host
               THEN The({ Notified(x, [x.res EXCEPT !.success = FALSE])
                          : x \in {[r EXCEPT !.res.success = TRUE]} })
               ELSE [r EXCEPT !.res.success = FALSE]
               : r \in {try_acquire_host(s, p, FALSE)} })

\* schedule_transfer(minutes, target_identity): NoId is None.
schedule_transfer(s, minutes, target) ==
    IF ~s.me.is_host THEN [s EXCEPT !.res = Res(FALSE, FALSE, "not_host", 0)]
    ELSE IF minutes < 1 THEN [s EXCEPT !.res = Res(FALSE, TRUE, "invalid", 0)]
    ELSE The({ IF target # NoId /\ \A i \in QueueIdx(r.data) : DataRow(r.data, i).id # target
               THEN [r EXCEPT !.res = Res(FALSE, TRUE, "not_found", 0)]
               ELSE The({ Notified(x, Res(FALSE, TRUE, "error", 0))
                          : x \in {[_invalidate_cache([r EXCEPT !.ws =
                                        SetTransfer(r.ws, 60 * minutes, target)])
                                      EXCEPT !.res = Res(TRUE, TRUE, "scheduled", 0)]} })
               : r \in {IF target # NoId THEN _get_cached_data(s, TRUE) ELSE s} })

\* cancel_scheduled_transfer()
cancel_scheduled_transfer(s) ==
    IF ~s.me.is_host THEN [s EXCEPT !.res = Res(FALSE, FALSE, "not_host", 0)]
    ELSE The({ Notified(x, Res(FALSE, TRUE, "error", 0))
               : x \in {[_invalidate_cache([s EXCEPT !.ws = SetTransfer(s.ws, NoTime, NoId)])
                           EXCEPT !.res = Res(TRUE, TRUE, "cancelled", 0)]} })

\* A transfer_to that does not look at the heartbeat of its target.
TransferToUnchecked(s, p, target) ==
    IF ~s.me.is_host THEN [s EXCEPT !.res = Res(FALSE, FALSE, "not_host", 0)]
    ELSE The({ The({
             IF found = {} THEN [r EXCEPT !.res = Res(FALSE, TRUE, "not_found", 0)]
             ELSE DoTransfer(r, p, First(found), "DIRECT")
             : found \in {{i \in QueueIdx(r.data) : DataRow(r.data, i).id = target}} })
             : r \in {_get_cached_data(s, TRUE)} })

\* transfer_to(target_identity)
transfer_to(s, p, target) ==
    IF ~s.me.is_host THEN [s EXCEPT !.res = Res(FALSE, FALSE, "not_host", 0)]
    ELSE The({ The({
             IF found = {} THEN [r EXCEPT !.res = Res(FALSE, TRUE, "not_found", 0)]
             ELSE IF /\ DataRow(r.data, First(found)).hb # NoTime
                     /\ DataRow(r.data, First(found)).hb > OFFLINE_TIMEOUT
             THEN [r EXCEPT !.res = Res(FALSE, TRUE, "offline", 0)]
             ELSE The({ IF t.raised
                        THEN [t EXCEPT !.raised = FALSE,
                                       !.res = Res(FALSE, t.me.is_host, "error", 0)]
                        ELSE t
                        : t \in {DoTransfer(r, p, First(found), "DIRECT")} })
             : found \in {{i \in QueueIdx(r.data) : DataRow(r.data, i).id = target}} })
             : r \in {_get_cached_data(s, TRUE)} })

----------------------------------------------------------------------------
(* QueueManager                                                            *)

\* move_in_queue(identity, new_position) without the upper bound of the position.
MoveInQueueUnvalidated(s, ident, new_position) ==
    IF ~s.me.is_host THEN [s EXCEPT !.res = Res(FALSE, FALSE, "not_host", 0)]
    ELSE The({ The({
             IF found = {} THEN [r EXCEPT !.res = Res(FALSE, TRUE, "not_found", 0)]
             ELSE LET i == First(found)
                      current_position == i - 1
                      queue_size == DataLen(r.data) - 2
                      \* sheet rows: bot_row = i + 1, new_row = new_position + 2
                      old_row_adjusted == IF new_position + 2 < i + 1 THEN i + 2 ELSE i + 1
                  IN  IF new_position < 1
                      THEN [r EXCEPT !.res = Res(FALSE, TRUE, "invalid", 0)]
                      ELSE IF current_position = new_position
                      THEN [r EXCEPT !.res = Res(TRUE, TRUE, "already_there", 0)]
                      ELSE The({ [_invalidate_cache(s2)
                                     EXCEPT !.res = Res(TRUE, TRUE, "moved", new_position)]
                                 : s2 \in {_update_queue_positions([r EXCEPT !.ws =
                                       DeleteRows(InsertRow(r.ws, DataRow(r.data, i),
                                                            new_position + 1),
                                                  old_row_adjusted - 1)])} })
             : found \in {{i \in QueueIdx(r.data) : DataRow(r.data, i).id = ident}} })
             : r \in {_get_cached_data(s, TRUE)} })

\* move_in_queue(identity, new_position)
move_in_queue(s, ident, new_position) ==
    IF ~s.me.is_host THEN [s EXCEPT !.res = Res(FALSE, FALSE, "not_host", 0)]
    ELSE The({ The({
             IF found = {} THEN [r EXCEPT !.res = Res(FALSE, TRUE, "not_found", 0)]
             ELSE LET i == First(found)
                      current_position == i - 1
                      queue_size == DataLen(r.data) - 2
                      \* sheet rows: bot_row = i + 1, new_row = new_position + 2
                      old_row_adjusted == IF new_position + 2 < i + 1 THEN i + 2 ELSE i + 1
                  IN  IF new_position < 1 \/ new_position > queue_size
                      THEN [r EXCEPT !.res = Res(FALSE, TRUE, "invalid", 0)]
                      ELSE IF current_position = new_position
                      THEN [r EXCEPT !.res = Res(TRUE, TRUE, "already_there", 0)]
                      ELSE The({ The({ Notified(x, Res(FALSE, TRUE, "error", 0))
                                 : x \in {[_invalidate_cache(s2)
                                     EXCEPT !.res = Res(TRUE, TRUE, "moved", new_position)]} })
                                 : s2 \in {_update_queue_positions([r EXCEPT !.ws =
                                       DeleteRows(InsertRow(r.ws, DataRow(r.data, i),
                                                            new_position + 1),
                                                  old_row_adjusted - 1)])} })
             : found \in {{i \in QueueIdx(r.data) : DataRow(r.data, i).id = ident}} })
             : r \in {_get_cached_data(s, TRUE)} })

\* remove_from_queue(identity)
remove_from_queue(s, ident) ==
    IF ~s.me.is_host THEN [s EXCEPT !.res = Res(FALSE, FALSE, "not_host", 0)]
    ELSE The({ The({
             IF found = {} THEN [r EXCEPT !.res = Res(FALSE, TRUE, "not_found", 0)]
             ELSE The({ The({ Notified(x, Res(FALSE, TRUE, "error", 0))
                        : x \in {[_invalidate_cache(s2)
                                    EXCEPT !.res = Res(TRUE, TRUE, "removed", 0)]} })
                        : s2 \in {_update_queue_positions(
                              [r EXCEPT !.ws = DeleteRows(r.ws, First(found))])} })
             : found \in {{i \in QueueIdx(r.data) : DataRow(r.data, i).id = ident}} })
             : r \in {_get_cached_data(s, TRUE)} })

\* The rows cleanup_dead_bots would delete if it compared with HOST_DEAD_TIMEOUT.
DeadBotsEarly(d) ==
    {i \in QueueIdx(d) : /\ DataRow(d, i).id # NoId
                         /\ DataRow(d, i).hb # NoTime
                         /\ DataRow(d, i).hb > HOST_DEAD_TIMEOUT}

\* to_remove of cleanup_dead_bots.
DeadBots(d) ==
    {i \in QueueIdx(d) : /\ DataRow(d, i).id # NoId
                         /\ DataRow(d, i).hb # NoTime
                         /\ DataRow(d, i).hb > OFFLINE_TIMEOUT}

RECURSIVE IdsOf(_, _)
IdsOf(d, S) ==
    IF S = {} THEN <<>>
    ELSE LET i == First(S) IN <<DataRow(d, i).id>> \o IdsOf(d, S \ {i})

\* cleanup_dead_bots(): res.removed lists the identities of "details".
cleanup_dead_bots(s) ==
    IF ~s.me.is_host THEN [s EXCEPT !.res = Res(FALSE, FALSE, "not_host", 0)]
    ELSE The({ The({ The({ The({
             IF s2.note = "raised" THEN s2
             ELSE [s2 EXCEPT !.res = [Res(TRUE, TRUE, "cleaned", 0)
                                         EXCEPT !.removed = IdsOf(r.data, to_remove)]]
             : s2 \in {IF to_remove # {}
                       THEN The({ Notified(x, Res(FALSE, TRUE, "error", 0))
                                  : x \in {_invalidate_cache(_update_queue_positions(s1))} })
                       ELSE s1} })
             : s1 \in {[r EXCEPT !.ws = DeleteReversed(r.ws, to_remove)]} })
             : to_remove \in {DeadBots(r.data)} })
             : r \in {_get_cached_data(s, TRUE)} })

----------------------------------------------------------------------------
(* The polling loops of host_bot.py                                        *)

\* A process of host_bot.py.  mode: "api" a caller of HostLock's methods with no
\* loop of its own; "off" not started; "loop" the monitoring loop of __main__;
\* "app" the application with its update_host_heartbeat job; "dead" ended.
\* sleep: the time until its loop runs again (NoTime: no loop).  cycled: it has
\* completed a loop iteration since the HOST row last changed hands.  join: the
\* "position" of the _join_queue it is in, between its read and its append_row
\* (NotJoining: it is in no _join_queue).
NotJoining == -2

Bot(mode, monitoring, sleep, cycled) ==
    [mode |-> mode, bot_in_monitoring_mode |-> monitoring, sleep |-> sleep,
     cycled |-> cycled, join |-> NotJoining]

\* The results that hand the HOST row to a process.
HandOver == {"acquired", "forced", "recovered", "transferred"}

\* ws.get_all_values() and ws.update(f"G{i+1}") of update_host_heartbeat: the
\* heartbeat of the first queue row of this machine.
QueueHeartbeat(s, p) ==
    The({ IF mine = {} THEN s ELSE [s EXCEPT !.ws = SetHeartbeat(s.ws, First(mine))]
          : mine \in {{i \in QueueIdx(Snapshot(s.ws)) :
                         _is_same_machine(p, DataRow(Snapshot(s.ws), i).id)}} })

\* update_host_heartbeat(context): s.flag is bot_in_monitoring_mode afterwards.
\* s1: after get_host_info(); lost: "if host_lock.is_host and not is_me_host";
\* s2: after that branch; mon: bot_in_monitoring_mode then.
update_host_heartbeat(s, p, monitoring) ==
    The({ The({ The({
        IF s2.me.is_host
        THEN The({ [s3 EXCEPT !.flag = ((monitoring \/ lost) \/ ~s3.me.is_host)]
                   : s3 \in {check_and_takeover_if_dead(s2, p)} })
        ELSE IF monitoring \/ lost
        THEN The({ The({ [s4 EXCEPT !.flag = ~(s4.res.success /\ s4.me.is_host)]
                         : s4 \in {check_and_takeover_if_dead(s3, p)} })
                   : s3 \in {QueueHeartbeat(s2, p)} })
        ELSE [s2 EXCEPT !.flag = FALSE]
        : s2 \in {IF lost THEN [s1 EXCEPT !.me.is_host = FALSE] ELSE s1} })
        : lost \in {/\ s1.me.is_host
                    /\ ~(/\ CurrentHost(s1.data) # NoId
                         /\ _is_same_machine(p, CurrentHost(s1.data)))} })
        : s1 \in {get_host_info(s)} })

\* __main__ after "host_lock = HostLock(...)": the result of try_acquire_host
\* decides between the application, whose job runs first after 10 seconds (the
\* next step of time), and the monitoring loop, which polls at once.
StartMode(r) ==
    IF ~r.res.success THEN Bot("dead", FALSE, NoTime, FALSE)
    ELSE IF r.res.is_host THEN Bot("app", FALSE, POLL_INTERVAL, FALSE)
    ELSE Bot("loop", TRUE, 0, FALSE)

----------------------------------------------------------------------------
(* State, budgets and the actions                                          *)

Arg(force, id, n) == [force |-> force, id |-> id, n |-> n]
NoArg == Arg(FALSE, NoId, 0)

\* The reads of one method that fail: at most k of them, among its first MaxReads.
MaxReads == 3

Failures(o) == Cardinality({i \in 1..Len(o) : o[i] # "ok"})

Oracles(k) ==
    {o \in UNION {[1..n -> ReadOutcomes] : n \in 0..MaxReads} :
        /\ Failures(o) <= (IF k < 0 THEN 0 ELSE k)
        /\ (o = <<>> \/ o[Len(o)] # "ok")}

\* The writes of one transfer that raise: at most k of them, among its first
\* MaxWrites.
MaxWrites == 6

WriteOracles(k) ==
    {o \in UNION {[1..n -> {"ok", "error"}] : n \in 0..MaxWrites} :
        /\ Failures(o) <= (IF k < 0 THEN 0 ELSE k)
        /\ (o = <<>> \/ o[Len(o)] # "ok")}

\* lim[b] < 0: the budget is unlimited.
Spend(b, n) == [lim EXCEPT ![b] = IF @ < 0 THEN @ ELSE @ - n]

\* The processes in "api" are callers of the methods, those in "off" bots that
\* have not started; lim is the budget of the run.
InitBudget(api, off, budget) ==
    /\ ws = EmptySheet
    /\ history = <<>>
    /\ hl = [p \in Procs |-> NewHostLock]
    /\ bot = [p \in Procs |-> IF p \in api THEN Bot("api", FALSE, NoTime, FALSE)
                              ELSE IF p \in off THEN Bot("off", FALSE, NoTime, FALSE)
                              ELSE Bot("dead", FALSE, NoTime, FALSE)]
    /\ ret = [p |-> "", op |-> "init", arg |-> NoArg, res |-> NoRes, n |-> 0,
              bit |-> FALSE, quiet |-> 0, note |-> "none"]
    /\ lim = budget

InitWith(api, off, calls, ticks, fails) ==
    InitBudget(api, off, [calls |-> calls, ticks |-> ticks, fails |-> fails, wfails |-> 0,
                          cbfails |-> 0])

\* Method op of process p returns with context r.  ret is the last call: ret.n
\* counts the calls up to 2, ret.bit flips with each call, and ret.quiet is
\* the time that has passed since, up to QuietCap; ret.note is what became of
\* the notification of its event ("none": it has emitted no event).
Returns(p, op, arg, orc, r) ==
    /\ ws' = r.ws
    /\ history' = r.history
    /\ hl' = [hl EXCEPT ![p] = r.me]
    /\ ret' = [p |-> p, op |-> op, arg |-> arg, res |-> r.res,
               n |-> Min(ret.n + 1, 2), bit |-> ~ret.bit, quiet |-> 0,
               note |-> r.note]
    /\ lim' = [lim EXCEPT !.calls = IF @ < 0 THEN @ ELSE @ - 1,
                          !.fails = IF @ < 0 THEN @ ELSE @ - Failures(orc),
                          !.wfails = IF @ < 0 THEN @ ELSE @ - r.wfailed,
                          !.cbfails = IF @ < 0 \/ r.note # "failed" THEN @ ELSE @ - 1]

\* A method called on the HostLock of a process (by the bot, a command or the GUI).
CanCall(p) == bot[p].mode = "api" /\ bot[p].join = NotJoining /\ lim.calls # 0

\* The contexts of a call of process p: notify_callback delivers the event, or
\* fails while the budget allows failures.
Callbacks(k) == IF k = 0 THEN {"ok"} ELSE {"ok", "error"}

Calls(p, orc) == {[Ctx(p, orc) EXCEPT !.cb = cb] : cb \in Callbacks(lim.cbfails)}

TryAcquire(p, force) ==
    /\ CanCall(p)
    /\ \E orc \in Oracles(lim.fails) :
          \E c \in Calls(p, orc) : \E r \in {try_acquire_host(c, p, force)} :
              Returns(p, "try_acquire_host", Arg(force, NoId, 0), orc, r)
    /\ UNCHANGED bot

\* try_acquire_host() of a process beside others: when it reaches _join_queue
\* it stops after the read of the position, where other processes may run.
TryAcquireJoining(p) ==
    /\ CanCall(p)
    /\ \E c \in Calls(p, <<>>) :
          \E r \in {TryAcquireHostJoining(c, p, FALSE, FALSE)} :
              IF r.res.msg = "joining"
              THEN /\ ws' = r.ws
                   /\ hl' = [hl EXCEPT ![p] = r.me]
                   /\ bot' = [bot EXCEPT ![p].join = r.res.queue_position]
                   /\ UNCHANGED <<history, ret, lim>>
              ELSE /\ Returns(p, "try_acquire_host", Arg(FALSE, NoId, 0), <<>>, r)
                   /\ UNCHANGED bot

\* The rest of the _join_queue a process is in: append_row, and the return.
JoinAppend(p) ==
    /\ bot[p].mode = "api" /\ bot[p].join # NotJoining /\ lim.calls # 0
    /\ \E c \in Calls(p, <<>>) :
          \E r \in {JoinQueueAppend(c, p, bot[p].join)} :
              Returns(p, "try_acquire_host", Arg(FALSE, NoId, 0), <<>>, r)
    /\ bot' = [bot EXCEPT ![p].join = NotJoining]

Release(p) ==
    /\ CanCall(p)
    /\ \E c \in Calls(p, <<>>) : \E r \in {release_host(c)} :
          Returns(p, "release_host", NoArg, <<>>, r)
    /\ UNCHANGED bot

Heartbeat(p) ==
    /\ CanCall(p)
    /\ \E c \in Calls(p, <<>>) : \E r \in {update_heartbeat(c)} :
          Returns(p, "update_heartbeat", NoArg, <<>>, r)
    /\ UNCHANGED bot

CheckAndTakeover(p) ==
    /\ CanCall(p)
    /\ \E orc \in Oracles(lim.fails) :
          \E c \in Calls(p, orc) : \E r \in {check_and_takeover_if_dead(c, p)} :
              Returns(p, "check_and_takeover_if_dead", NoArg, orc, r)
    /\ UNCHANGED bot

GetTransferStatus(p) ==
    /\ CanCall(p)
    /\ \E orc \in Oracles(lim.fails) :
          \E r \in {get_transfer_status(Ctx(p, orc))} :
              Returns(p, "get_transfer_status", NoArg, orc, r)
    /\ UNCHANGED bot

GetHostInfo(p) ==
    /\ CanCall(p)
    /\ \E orc \in Oracles(lim.fails) :
          \E r \in {get_host_info(Ctx(p, orc))} :
              Returns(p, "get_host_info", NoArg, orc, r)
    /\ UNCHANGED bot

\* The identities the operator of process p can name: those of the other
\* processes that run.
Others(p) == {identity(q) : q \in {q \in Procs \ {p} : bot[q].mode # "dead"}}

ScheduleTransfer(p, minutes, target) ==
    /\ CanCall(p)
    /\ \E orc \in Oracles(lim.fails) :
          \E c \in Calls(p, orc) : \E r \in {schedule_transfer(c, minutes, target)} :
              Returns(p, "schedule_transfer", Arg(FALSE, target, minutes), orc, r)
    /\ UNCHANGED bot

CancelTransfer(p) ==
    /\ CanCall(p)
    /\ \E c \in Calls(p, <<>>) : \E r \in {cancel_scheduled_transfer(c)} :
          Returns(p, "cancel_scheduled_transfer", NoArg, <<>>, r)
    /\ UNCHANGED bot

\* ret.arg.id is the TRANSFER_TO of the HOST row when the method is called,
\* ret.arg.n the number of iterations its loop has entered.
ExecuteTransfer(p) ==
    /\ CanCall(p)
    /\ \E orc \in Oracles(lim.fails), wrc \in WriteOracles(lim.wfails) :
          \E c \in Calls(p, orc) :
          \E r \in {execute_scheduled_transfer([c EXCEPT !.wrc = wrc], p)} :
              Returns(p, "execute_scheduled_transfer", Arg(FALSE, ws.host.tto, r.tries), orc, r)
    /\ UNCHANGED bot

TransferTo(p, target) ==
    /\ CanCall(p)
    /\ \E orc \in Oracles(lim.fails), wrc \in WriteOracles(lim.wfails) :
          \E c \in Calls(p, orc) : \E r \in {transfer_to([c EXCEPT !.wrc = wrc], p, target)} :
              Returns(p, "transfer_to", Arg(FALSE, target, 0), orc, r)
    /\ UNCHANGED bot

MoveInQueue(p, ident, new_position) ==
    /\ CanCall(p)
    /\ \E orc \in Oracles(lim.fails) :
          \E c \in Calls(p, orc) : \E r \in {move_in_queue(c, ident, new_position)} :
              Returns(p, "move_in_queue", Arg(FALSE, ident, new_position), orc, r)
    /\ UNCHANGED bot

RemoveFromQueue(p, ident) ==
    /\ CanCall(p)
    /\ \E orc \in Oracles(lim.fails) :
          \E c \in Calls(p, orc) : \E r \in {remove_from_queue(c, ident)} :
              Returns(p, "remove_from_queue", Arg(FALSE, ident, 0), orc, r)
    /\ UNCHANGED bot

CleanupDeadBots(p) ==
    /\ CanCall(p)
    /\ \E orc \in Oracles(lim.fails) :
          \E c \in Calls(p, orc) : \E r \in {cleanup_dead_bots(c)} :
              Returns(p, "cleanup_dead_bots", NoArg, orc, r)
    /\ UNCHANGED bot

\* A read of the control table by process p: _get_cached_data(ws, force_refresh).
\* It returns a list and raises nothing; res.data is the list returned, and
\* res.msg tells whether it has logged an error of the read ("read_error");
\* arg.n is the number of calls of ws.get_all_values() it has issued.
GetCachedData(p, force_refresh) ==
    /\ CanCall(p)
    /\ \E orc \in Oracles(lim.fails) :
          \E r \in {_get_cached_data(Ctx(p, orc), force_refresh)} :
              Returns(p, "_get_cached_data", Arg(force_refresh, NoId, r.reads), orc,
                      [r EXCEPT !.res =
                          [Res(TRUE, r.me.is_host,
                               IF r.raised THEN "read_error" ELSE "data", 0)
                              EXCEPT !.data = r.data]])
    /\ UNCHANGED bot

\* A store call of process p through its SheetsManager.
GspreadCall(p, outcome, top) ==
    /\ CanCall(p)
    /\ \E r \in {_gspread_call(Ctx(p, <<>>), outcome, top)} :
          Returns(p, "_gspread_call", Arg(top, NoId, 0), <<>>, r)
    /\ UNCHANGED bot

\* A read of process p has failed with a quota error: _apply_quota_cooldown.
\* The result carries the cooldown it applies, in milliseconds.
ApplyQuotaCooldown(p, top) ==
    /\ CanCall(p)
    /\ \E me \in {_apply_quota_cooldown(hl[p], top)} :
          Returns(p, "_apply_quota_cooldown", Arg(top, NoId, 0), <<>>,
                  [Ctx(p, <<>>) EXCEPT !.me = me,
                      !.res = Res(FALSE, me.is_host, "quota",
                                  CooldownMs(me.quota_backoff, top))])
    /\ UNCHANGED bot

\* The identity strings "user@host (PID:n)" whose machine id is a string of up
\* to MaxMachineLen letters.
MachineIds ==
    UNION {[1..n -> {"a", "b", "c"}] : n \in 1..MaxMachineLen}

Identities == {m \o <<" (PID:", n, ")">> : m \in MachineIds, n \in {"1", "2"}}

\* _is_same_machine(identity) evaluated by process p; res.success is its value.
IsSameMachine(p, ident) ==
    /\ CanCall(p)
    /\ Returns(p, "_is_same_machine", Arg(FALSE, ident, 0), <<>>,
               [Ctx(p, <<>>) EXCEPT !.res = Res(_is_same_machine(p, ident),
                                               hl[p].is_host, "", 0)])
    /\ UNCHANGED bot

\* A loop iteration of p ended and left p as b: the flags "cycled" are reset when
\* a process started or the HOST row changed hands, and p has cycled otherwise.
Cycled(p, handover, b) ==
    IF handover
    THEN [q \in Procs |-> [(IF q = p THEN b ELSE bot[q]) EXCEPT !.cycled = FALSE]]
    ELSE [bot EXCEPT ![p] = [b EXCEPT !.cycled = TRUE]]

\* __main__ of host_bot.py up to the choice of the mode.
Startup(p) ==
    /\ bot[p].mode = "off" /\ lim.calls # 0
    /\ \E r \in {try_acquire_host(Ctx(p, <<>>), p, FALSE)} :
          /\ Returns(p, "startup", NoArg, <<>>, r)
          /\ bot' = Cycled(p, TRUE, StartMode(r))

\* One iteration of the monitoring loop of __main__: check_and_takeover_if_dead,
\* then _restart_process (the process runs __main__ again with a new HostLock)
\* when it has become host, then time.sleep(15).
MonitorLoop(p) ==
    /\ bot[p].mode = "loop" /\ bot[p].sleep = 0 /\ lim.calls # 0
    /\ \E r \in {check_and_takeover_if_dead(Ctx(p, <<>>), p)} :
          IF r.me.is_host
          THEN \E again \in {try_acquire_host([r EXCEPT !.me = NewHostLock], p, FALSE)} :
                  /\ Returns(p, "monitor_loop", NoArg, <<>>, again)
                  /\ bot' = Cycled(p, TRUE, StartMode(again))
          ELSE /\ Returns(p, "monitor_loop", NoArg, <<>>, r)
               /\ bot' = Cycled(p, FALSE, [bot[p] EXCEPT !.sleep = POLL_INTERVAL])

\* One run of the job update_host_heartbeat (run_repeating, interval 60).
HeartbeatJob(p) ==
    /\ bot[p].mode = "app" /\ bot[p].sleep = 0 /\ lim.calls # 0
    /\ \E r \in {update_host_heartbeat(Ctx(p, <<>>), p, bot[p].bot_in_monitoring_mode)} :
          /\ Returns(p, "update_host_heartbeat", NoArg, <<>>, r)
          /\ bot' = Cycled(p, r.res.msg \in HandOver,
                        [bot[p] EXCEPT !.bot_in_monitoring_mode = r.flag,
                                       !.sleep = HEARTBEAT_INTERVAL])

\* The application ends: on_shutdown calls release_host() when is_host.
Shutdown(p) ==
    /\ bot[p].mode = "app" /\ lim.calls # 0
    /\ \E r \in {release_host(Ctx(p, <<>>))} : Returns(p, "shutdown", NoArg, <<>>, r)
    /\ bot' = [bot EXCEPT ![p] = Bot("dead", FALSE, NoTime, FALSE)]

\* The process is killed: nothing of it runs any more, its rows stay.
Crash(p) ==
    /\ bot[p].mode \in {"loop", "app"}
    /\ bot' = [bot EXCEPT ![p] = Bot("dead", FALSE, NoTime, FALSE)]
    /\ UNCHANGED <<ws, history, hl, ret, lim>>

----------------------------------------------------------------------------
(* Time                                                                    *)

Older(age, d) == IF age = NoTime THEN NoTime ELSE Min(age + d, AgeCap)
Sooner(left, d) == IF left = NoTime THEN NoTime ELSE Max(left - d, 0)

AgeRow(r, d) == [r EXCEPT !.hb = Older(@, d), !.tat = Sooner(@, d)]

AgeData(x, d) ==
    [x EXCEPT !.host = AgeRow(@, d),
              !.queue = [k \in 1..Len(x.queue) |-> AgeRow(x.queue[k], d)]]

AgeHostLock(me, d) ==
    [me EXCEPT !.last_read_data = AgeData(@, d),
               !.read_age = Older(@, d),
               !.cooldown = Max(@ - d, 0),
               !.cleanup_age = Older(@, d),
               !.sheets.quota_cooldown_until = Max(@ - d, 0)]

\* Time without a call is counted until it exceeds a heartbeat interval.
QuietCap == HEARTBEAT_INTERVAL + POLL_INTERVAL

\* The steps of time a run takes between two calls.
TickSteps == {POLL_INTERVAL, HOST_DEAD_TIMEOUT + POLL_INTERVAL, OFFLINE_TIMEOUT + POLL_INTERVAL}

\* d seconds pass.  A loop that is due runs before time passes on.
Tick ==
    /\ lim.ticks # 0
    /\ \E d \in TickSteps :
          /\ \A p \in Procs : bot[p].sleep = NoTime \/ bot[p].sleep >= d
          /\ ws' = AgeData(ws, d)
          /\ hl' = [p \in Procs |-> AgeHostLock(hl[p], d)]
          /\ bot' = [p \in Procs |-> [bot[p] EXCEPT !.sleep = Sooner(@, d)]]
          /\ ret' = [ret EXCEPT !.quiet = Min(@ + d, QuietCap)]
    /\ lim' = Spend("ticks", 1)
    /\ UNCHANGED history

----------------------------------------------------------------------------
(* Specifications                                                          *)

\* Processes of three machines that join the queue beside each other.
JoinCalls == 5
JoinTicks == 1

InitJoin == InitWith({"P1", "P2", "P3"}, {}, JoinCalls, JoinTicks, 0)

NextJoin ==
    \/ \E p \in Procs : TryAcquireJoining(p)
    \/ \E p \in Procs : JoinAppend(p)
    \/ \E p \in Procs : Release(p)
    \/ Tick

SpecJoin == InitJoin /\ [][NextJoin]_vars

\* A host whose transfers meet store calls that fail, targets that have left
\* the queue and queues with no candidate.
AttemptCalls == 5
AttemptTicks == 1
AttemptReads == 1
AttemptWrites == 3

InitAttempt ==
    InitBudget({"P1", "P2"}, {},
               [calls |-> AttemptCalls, ticks |-> AttemptTicks, fails |-> AttemptReads,
                wfails |-> AttemptWrites, cbfails |-> 0])

NextAttempt ==
    \/ \E p \in Procs : ~hl[p].is_host /\ TryAcquire(p, FALSE)
    \/ \E p \in Procs : \E target \in {ws.queue[k].id : k \in 1..Len(ws.queue)} \ {NoId} :
          hl[p].is_host /\ ScheduleTransfer(p, 1, target)
    \/ \E p \in Procs : \E ident \in {ws.queue[k].id : k \in 1..Len(ws.queue)} \ {NoId} :
          hl[p].is_host /\ RemoveFromQueue(p, ident)
    \/ \E p \in Procs : hl[p].is_host /\ ExecuteTransfer(p)
    \/ Tick

SpecAttempt == InitAttempt /\ [][NextAttempt]_vars

\* A host that keeps its heartbeat while processes join at different times, and
\* executes the transfer to a target or to the next in queue.
ViableCalls == 6
ViableTicks == 2

InitViable == InitWith({"P1", "P2", "P3"}, {}, ViableCalls, ViableTicks, 0)

NextViable ==
    \/ \E p \in Procs : ~hl[p].is_host /\ TryAcquire(p, FALSE)
    \/ \E p \in Procs : hl[p].is_host /\ Heartbeat(p)
    \/ \E p \in Procs : \E target \in {ws.queue[k].id : k \in 1..Len(ws.queue)} \ {NoId} :
          hl[p].is_host /\ ScheduleTransfer(p, 1, target)
    \/ \E p \in Procs : hl[p].is_host /\ ExecuteTransfer(p)
    \/ Tick

SpecViable == InitViable /\ [][NextViable]_vars

\* A host that schedules and cancels transfers while the processes of its
\* machine poll: P1 and P4.
DueCalls == 5
DueTicks == 4

InitDue == InitWith({"P1", "P4"}, {}, DueCalls, DueTicks, 0)

NextDue ==
    \/ \E p \in Procs : TryAcquire(p, FALSE)
    \/ \E p \in Procs : hl[p].is_host /\ ScheduleTransfer(p, 1, NoId)
    \/ \E p \in Procs : hl[p].is_host /\ CancelTransfer(p)
    \/ \E p \in Procs : CheckAndTakeover(p)
    \/ Tick

SpecDue == InitDue /\ [][NextDue]_vars

\* The same, with the status of the transfer shown by the GUI of a process that
\* is host (update_transfer_status of host_gui.py).
NextCancel ==
    \/ NextDue
    \/ \E p \in Procs : hl[p].is_host /\ GetTransferStatus(p)

SpecCancel == InitDue /\ [][NextCancel]_vars

\* Election through the methods: P1 and P4 on one machine, P2 on another.
Init == InitWith({"P1", "P2", "P4"}, {}, MaxCalls, MaxTicks, 0)

Next ==
    \/ \E p \in Procs : TryAcquire(p, FALSE)
    \/ \E p \in Procs : Release(p)
    \/ \E p \in Procs : GetHostInfo(p)
    \/ Tick

Spec == Init /\ [][Next]_vars

\* Two processes of one machine and one of another, acquiring and releasing.
InitSame == InitWith({"P1", "P2", "P4"}, {}, SameCalls, SameTicks, 0)

NextSame ==
    \/ \E p \in Procs : TryAcquire(p, FALSE)
    \/ \E p \in Procs : Release(p)
    \/ Tick

SpecSame == InitSame /\ [][NextSame]_vars

\* A host and the processes of two other machines, with transfers.
InitXfer == InitWith({"P1", "P2", "P3"}, {}, XferCalls, XferTicks, 0)

NextXfer ==
    \/ \E p \in Procs : TryAcquire(p, FALSE)
    \/ \E p \in Procs : \E target \in Others(p) : hl[p].is_host /\ TransferTo(p, target)
    \/ \E p \in Procs : \E target \in Others(p) \cup {NoId} :
          hl[p].is_host /\ ScheduleTransfer(p, 1, target)
    \/ \E p \in Procs : hl[p].is_host /\ ExecuteTransfer(p)
    \/ Tick

SpecXfer == InitXfer /\ [][NextXfer]_vars

\* The same while writes of a transfer fail.
InitWrite ==
    InitBudget({"P1", "P2", "P3"}, {},
               [calls |-> WriteCalls, ticks |-> WriteTicks, fails |-> 0,
                wfails |-> WriteFails, cbfails |-> 0])

SpecWrite == InitWrite /\ [][NextXfer]_vars

\* Every process calls the methods of the host, whether it is host or not.
InitGuard == InitWith({"P1", "P2", "P3"}, {}, GuardCalls, GuardTicks, 0)

NextGuard ==
    \/ \E p \in Procs : TryAcquire(p, FALSE)
    \/ \E p \in Procs : \E ident \in Others(p), new_position \in 1..2 :
          MoveInQueue(p, ident, new_position)
    \/ \E p \in Procs : \E ident \in Others(p) : RemoveFromQueue(p, ident)
    \/ \E p \in Procs : CleanupDeadBots(p)
    \/ \E p \in Procs : \E target \in Others(p) \cup {NoId} : ScheduleTransfer(p, 1, target)
    \/ \E p \in Procs : CancelTransfer(p)
    \/ \E p \in Procs : ExecuteTransfer(p)
    \/ \E p \in Procs : \E target \in Others(p) : TransferTo(p, target)
    \/ \E p \in Procs : Heartbeat(p)
    \/ Tick

SpecGuard == InitGuard /\ [][NextGuard]_vars

\* Two processes that acquire, release and read the table while reads fail.
InitCache == InitWith({"P1", "P2"}, {}, CacheCalls, CacheTicks, CacheReads)

NextCache ==
    \/ \E p \in Procs : TryAcquire(p, FALSE)
    \/ \E p \in Procs : Release(p)
    \/ \E p \in Procs : \E force_refresh \in BOOLEAN : GetCachedData(p, force_refresh)
    \/ Tick

SpecCache == InitCache /\ [][NextCache]_vars

\* Election with and without the force flag, and direct transfers: two
\* processes of one machine and one of another.
InitForce == InitWith({"P1", "P2", "P4"}, {}, ForceCalls, ForceTicks, 0)

NextForce ==
    \/ \E p \in Procs : \E force \in BOOLEAN : TryAcquire(p, force)
    \/ \E p \in Procs : Release(p)
    \/ \E p \in Procs : \E target \in Others(p) : hl[p].is_host /\ TransferTo(p, target)
    \/ Tick

SpecForce == InitForce /\ [][NextForce]_vars

\* Two processes of two machines that acquire, with and without the force
\* flag, refresh the heartbeat and release.
InitStale == InitWith({"P1", "P2"}, {}, StaleCalls, StaleTicks, 0)

NextStale ==
    \/ \E p \in Procs : \E force \in BOOLEAN : TryAcquire(p, force)
    \/ \E p \in Procs : Release(p)
    \/ \E p \in Procs : Heartbeat(p)
    \/ Tick

SpecStale == InitStale /\ [][NextStale]_vars

\* The four processes compare identity strings with their own machine.
InitIdent == InitWith(Procs, {}, -1, 0, 0)

NextIdent == \E p \in Procs : \E ident \in Identities : IsSameMachine(p, ident)

SpecIdent == InitIdent /\ [][NextIdent]_vars

\* A host, its queue and a transfer while the notification callback fails.
InitNotify ==
    InitBudget({"P1", "P2", "P3"}, {},
               [calls |-> NotifyCalls, ticks |-> NotifyTicks, fails |-> 0,
                wfails |-> 0, cbfails |-> NotifyFails])

NextNotify ==
    \/ \E p \in Procs : TryAcquire(p, FALSE)
    \/ \E p \in Procs : Release(p)
    \/ \E p \in Procs : \E target \in Others(p) \cup {NoId} :
          hl[p].is_host /\ ScheduleTransfer(p, 1, target)
    \/ \E p \in Procs : \E target \in Others(p) : hl[p].is_host /\ TransferTo(p, target)
    \/ \E p \in Procs : \E ident \in Others(p) : hl[p].is_host /\ RemoveFromQueue(p, ident)
    \/ Tick

SpecNotify == InitNotify /\ [][NextNotify]_vars

\* One process whose store calls meet quota errors.
InitQuota == InitWith({"P1"}, {}, QuotaCalls, QuotaTicks, 0)

NextQuota ==
    \/ \E p \in Procs : \E top \in BOOLEAN : ApplyQuotaCooldown(p, top)
    \/ \E p \in Procs : \E outcome \in {"ok", "quota"}, top \in BOOLEAN :
          GspreadCall(p, outcome, top)
    \/ Tick

SpecQuota == InitQuota /\ [][NextQuota]_vars

\* A host that edits the queue, with positions in and out of range.
InitEdit == InitWith({"P1", "P2", "P3"}, {}, EditCalls, EditTicks, 0)

NextEdit ==
    \/ \E p \in Procs : TryAcquire(p, FALSE)
    \/ \E p \in Procs : \E ident \in Others(p), new_position \in 0..3 :
          hl[p].is_host /\ MoveInQueue(p, ident, new_position)
    \/ \E p \in Procs : \E ident \in Others(p) : hl[p].is_host /\ RemoveFromQueue(p, ident)
    \/ Tick

SpecEdit == InitEdit /\ [][NextEdit]_vars

\* A host that manages the queue of the processes of two other machines.
InitQueue == InitWith({"P1", "P2", "P3"}, {}, QueueCalls, QueueTicks, 0)

NextQueue ==
    \/ \E p \in Procs : TryAcquire(p, FALSE)
    \/ \E p \in Procs : \E ident \in Others(p), new_position \in 1..2 :
          hl[p].is_host /\ MoveInQueue(p, ident, new_position)
    \/ \E p \in Procs : \E ident \in Others(p) : hl[p].is_host /\ RemoveFromQueue(p, ident)
    \/ \E p \in Procs : hl[p].is_host /\ CleanupDeadBots(p)
    \/ Tick

SpecQueue == InitQueue /\ [][NextQueue]_vars

\* Election while reads of the store fail.
InitFail == InitWith({"P1", "P2", "P3"}, {}, FailCalls, FailTicks, FailReads)

NextFail ==
    \/ \E p \in Procs : TryAcquire(p, FALSE)
    \/ \E p \in Procs : Heartbeat(p)
    \/ Tick

SpecFail == InitFail /\ [][NextFail]_vars

\* The bots of two machines: each starts, then runs its loop on its schedule,
\* for as long as it lives.
InitBot == InitWith({}, {"P1", "P2"}, -1, -1, 0)

NextBot ==
    \/ \E p \in Procs : Startup(p)
    \/ \E p \in Procs : MonitorLoop(p)
    \/ \E p \in Procs : HeartbeatJob(p)
    \/ \E p \in Procs : Shutdown(p)
    \/ \E p \in Procs : Crash(p)
    \/ Tick

SpecBot == InitBot /\ [][NextBot]_vars

\* The bots of two machines, one of them with two processes, for a while.
InitTwin == InitWith({}, {"P1", "P2", "P4"}, TwinCalls, TwinTicks, 0)

NextTwin ==
    \/ \E p \in Procs : Startup(p)
    \/ \E p \in Procs : MonitorLoop(p)
    \/ \E p \in Procs : HeartbeatJob(p)
    \/ \E p \in Procs : Shutdown(p)
    \/ Tick

SpecTwin == InitTwin /\ [][NextTwin]_vars

\* The loops that are due run, and time passes.
FairBot ==
    /\ SpecBot
    /\ WF_vars(Tick)
    /\ \A p \in Procs : WF_vars(MonitorLoop(p)) /\ WF_vars(HeartbeatJob(p))

----------------------------------------------------------------------------
(* Claims                                                                  *)

\* The rows of the table that hold a record, the HOST row first.
Rows == <<ws.host>> \o ws.queue

Occupied == {i \in 1..Len(Rows) : Rows[i].id # NoId}

\* The step is a call of method op that has returned.
Called(op) == ret'.bit # ret.bit /\ ret'.op = op

\* No method has been called for longer than a heartbeat interval.
Settled == ret.quiet > HEARTBEAT_INTERVAL

\* C1: after any sequence of acquire, release, transfer and takeover operations
\* has settled (no call for longer than a heartbeat interval), at most one row
\* of the table has STATUS = HOST.
C1_AtMostOneHostStatus ==
    Settled => Cardinality({i \in 1..Len(Rows) : Rows[i].st = STATUS_HOST}) <= 1

\* C8: in a settled state no two rows of the table (HOST row and queue rows
\* together) hold the same machine id, and a process whose record is in the
\* HOST row has no queue row.
C8_OneRowPerMachine ==
    Settled => \A i, j \in Occupied :
        _extract_machine_id(Rows[i].id) = _extract_machine_id(Rows[j].id) => i = j

\* C9: on an empty table the first try_acquire_host of a process P1 succeeds with
\* is_host true and writes its record with STATUS = HOST into the HOST row; the
\* next call, a try_acquire_host of a process P2 of another machine while the
\* heartbeat of P1 is alive, succeeds with is_host false and queue position 1 and
\* leaves P2 as the only queue row.
C9_FirstHostSecondQueued ==
    [][/\ (ret.n = 0 /\ Called("try_acquire_host"))
            => /\ ret'.res = Res(TRUE, TRUE, "acquired", 0)
               /\ hl'[ret'.p].is_host
               /\ ws' = Sheet(Row(identity(ret'.p), 0, STATUS_HOST, NoTime, NoId, NoPos), <<>>)
       /\ (/\ ret.n = 1 /\ ret.op = "try_acquire_host" /\ Called("try_acquire_host")
           /\ machine_id(ret'.p) # machine_id(ret.p)
           /\ ws.host.hb <= HOST_DEAD_TIMEOUT)
            => /\ ret'.res = Res(TRUE, FALSE, "queued", 1)
               /\ ~hl'[ret'.p].is_host
               /\ ws'.host = ws.host
               /\ ws'.queue = <<Row(identity(ret'.p), 0, STATUS_WAITING, NoTime, NoId, Str(1))>>
      ]_vars

\* P2 has been queued behind P1, whose heartbeat had aged but was alive.
C9_Witness ==
    /\ ret.n = 2 /\ ret.p = "P2" /\ ret.op = "try_acquire_host" /\ ret.quiet = 0
    /\ ret.res = Res(TRUE, FALSE, "queued", 1)
    /\ ws.host.id = identity("P1") /\ ws.host.hb > 0
    /\ Len(ws.queue) = 1

\* The processes that run a loop of host_bot.py, and those among them that poll
\* from a queue row of their own.
Live == {p \in Procs : bot[p].mode \in {"loop", "app"}}

QueuedPollers ==
    {p \in Procs : /\ bot[p].mode = "loop"
                   /\ \E k \in 1..Len(ws.queue) : ws.queue[k].id = identity(p)}

\* C2: once every live process has completed a further heartbeat or poll cycle
\* after the last acquisition, at most one live process has is_host = true, also
\* when two processes share a machine id.
C2_AtMostOneIsHost ==
    (\A p \in Live : bot[p].cycled) => Cardinality({p \in Live : hl[p].is_host}) <= 1

\* C3: when the heartbeat of the HOST row is no longer refreshed while a queued
\* process keeps polling check_and_takeover_if_dead, a queued process becomes
\* HOST within HOST_DEAD_TIMEOUT + POLL_INTERVAL: no HOST row is older than that
\* while a queued process polls.
C3_TakeoverBound ==
    QueuedPollers # {} => ws.host.hb <= HOST_DEAD_TIMEOUT + POLL_INTERVAL

\* C4: after the HOST row has been released (identity and heartbeat cleared),
\* while some queued process keeps polling, a queued process eventually becomes
\* HOST.
C4_ReleasedLeadsToHost ==
    (ws.host.id = NoId /\ QueuedPollers # {})
        ~> (QueuedPollers = {} \/ \E p \in Procs : hl[p].is_host /\ ws.host.id = identity(p))

\* C5: a try_acquire_host without force, from a process not on the machine of
\* the host, never overwrites or clears a HOST row whose heartbeat is at most
\* HOST_DEAD_TIMEOUT old, also when its read of the table fails or is rate
\* limited and no cached copy exists.
C5_LiveHostNotOverwritten ==
    [][(/\ Called("try_acquire_host") /\ ~ret'.arg.force
        /\ ws.host.id # NoId
        /\ ~_is_same_machine(ret'.p, ws.host.id)
        /\ ws.host.hb # NoTime /\ ws.host.hb <= HOST_DEAD_TIMEOUT)
         => ws'.host = ws.host]_vars

\* The number of rows of table w that hold identity ident.
RowCount(w, ident) ==
    Cardinality({i \in 1..(1 + Len(w.queue)) : (<<w.host>> \o w.queue)[i].id = ident})

\* C6: two calls of try_acquire_host in succession by one process, with the
\* same arguments and no release in between, return the same is_host, and the
\* second creates no further row for the process, whether the first acquired
\* HOST or was queued.
C6_ReacquireIdempotent ==
    [][(/\ ret.op = "try_acquire_host" /\ ret.res.success /\ ret.quiet = 0
        /\ Called("try_acquire_host")
        /\ ret'.p = ret.p /\ ret'.arg = ret.arg)
         => /\ ret'.res.is_host = ret.res.is_host
            /\ RowCount(ws', identity(ret.p)) <= RowCount(ws, identity(ret.p))]_vars

NonEmpty(row) == row.id # NoId

\* The queue positions of the records of queue q are 1..N in row order.
Contiguous(q) ==
    LET rows == SelectSeq(q, NonEmpty)
    IN  \A k \in 1..Len(rows) : rows[k].qp = Str(k)

\* C7: after a queue move, a queue removal or a cleanup_dead_bots that
\* succeeded, the values of QUEUE_POSITION of the queue rows are exactly 1..N in
\* row order, with no gaps and no duplicates.
C7_QueueContiguous ==
    [][(/\ ret'.bit # ret.bit
        /\ ret'.op \in {"move_in_queue", "remove_from_queue", "cleanup_dead_bots"}
        /\ ret'.res.success)
         => Contiguous(ws'.queue)]_vars

\* C10: a scheduled transfer whose target does not exist or is offline, with no
\* other queue row alive, runs out of MAX_TRANSFER_ATTEMPTS: it returns failure,
\* the cells TRANSFER_AT and TRANSFER_TO are empty afterwards, and the process
\* that was HOST before is still in the HOST row with is_host = true.
C10_ExhaustedTransferRollsBack ==
    [][(/\ Called("execute_scheduled_transfer")
        /\ hl[ret'.p].is_host /\ ws.host.id = identity(ret'.p)
        /\ ws.host.tto # NoId
        /\ Viable(Snapshot(ws)) = {})
         => /\ ~ret'.res.success
            /\ ws'.host.tat = NoTime /\ ws'.host.tto = NoId
            /\ ws'.host.id = ws.host.id
            /\ hl'[ret'.p].is_host]_vars

\* The identities of the queue rows of table w.
QueueIds(w) == {w.queue[k].id : k \in 1..Len(w.queue)} \ {NoId}

\* C11: when execute_scheduled_transfer or transfer_to returns failure, also
\* after a store write or a row deletion of the transfer has failed, the HOST
\* row still holds the identity it held before, and every candidate is still in
\* the queue: the table is not left half transferred.
C11_FailedTransferLeavesHost ==
    [][((Called("execute_scheduled_transfer") \/ Called("transfer_to"))
        /\ ~ret'.res.success)
         => /\ ws'.host.id = ws.host.id
            /\ QueueIds(ws) \subseteq QueueIds(ws')]_vars

\* C12: execute_scheduled_transfer never promotes a candidate whose heartbeat is
\* older than OFFLINE_TIMEOUT: the queue row it copies into the HOST row, also
\* that of a named target, has a heartbeat of at most OFFLINE_TIMEOUT.
C12_NoStalePromotion ==
    [][(Called("execute_scheduled_transfer") /\ ret'.res.success)
         => \A k \in 1..Len(ws.queue) :
                ws.queue[k].id = ws'.host.id => ws.queue[k].hb <= OFFLINE_TIMEOUT]_vars

\* Queue q without its row k, and queue q without regard to QUEUE_POSITION.
Without(q, k) == [j \in 1..(Len(q) - 1) |-> IF j < k THEN q[j] ELSE q[j + 1]]

Unnumbered(q) == [j \in 1..Len(q) |-> [q[j] EXCEPT !.qp = NoPos]]

\* C13: when execute_scheduled_transfer or transfer_to succeeds with candidate
\* C, the HOST row holds the identity of C with STATUS = HOST and empty transfer
\* cells, the queue row of C is gone, the other queue rows are in the order they
\* were in, and the caller has is_host = false.
C13_TransferPromotesCandidate ==
    [][((Called("execute_scheduled_transfer") \/ Called("transfer_to"))
        /\ ret'.res.success)
         => /\ ws'.host.id # NoId /\ ws'.host.st = STATUS_HOST
            /\ ws'.host.tat = NoTime /\ ws'.host.tto = NoId /\ ws'.host.qp = NoPos
            /\ \E k \in 1..Len(ws.queue) :
                  /\ ws.queue[k].id = ws'.host.id
                  /\ Unnumbered(ws'.queue) = Unnumbered(Without(ws.queue, k))
            /\ ws'.host.id \notin QueueIds(ws')
            /\ ~hl'[ret'.p].is_host]_vars

\* A scheduled transfer has promoted one queue row and left another queued.
C13_Witness ==
    /\ ret.op = "execute_scheduled_transfer" /\ ret.res.success /\ ret.quiet = 0
    /\ ws.host.id # NoId /\ ws.host.id # identity(ret.p)
    /\ Len(ws.queue) = 1 /\ ~hl[ret.p].is_host

\* The queue rows of table w that hold identity ident.
RowsOf(w, ident) == {k \in 1..Len(w.queue) : w.queue[k].id = ident}

\* C14: transfer_to called by the process that is host, with a target that is
\* not in the queue or whose heartbeat is older than OFFLINE_TIMEOUT, returns a
\* failure and leaves the table, the transfer history and is_host of the caller
\* as they were.
C14_DirectTransferRejected ==
    [][(/\ Called("transfer_to") /\ hl[ret'.p].is_host
        /\ \/ RowsOf(ws, ret'.arg.id) = {}
           \/ ws.queue[First(RowsOf(ws, ret'.arg.id))].hb > OFFLINE_TIMEOUT)
         => /\ ~ret'.res.success
            /\ ws' = ws /\ history' = history
            /\ hl'[ret'.p].is_host]_vars

\* The host has been refused a transfer to a queued process that is offline.
C14_Witness ==
    /\ ret.op = "transfer_to" /\ ret.res.msg = "offline" /\ ret.quiet = 0
    /\ hl[ret.p].is_host /\ ws.host.id = identity(ret.p)
    /\ RowsOf(ws, ret.arg.id) # {}

\* C15: every outcome of a transfer the host asks for, success or failure,
\* scheduled or direct, appends exactly one record to the transfer history,
\* with the caller as "from" and the status of the outcome, and no step removes
\* or rewrites a record.
C15_EveryOutcomeLogged ==
    [][/\ Len(history') >= Len(history)
       /\ SubSeq(history', 1, Len(history)) = history
       /\ ((Called("execute_scheduled_transfer") \/ Called("transfer_to"))
           /\ hl[ret'.p].is_host)
            => /\ Len(history') = Len(history) + 1
               /\ history'[Len(history')].from = identity(ret'.p)
               /\ history'[Len(history')].status =
                      (IF ret'.res.success THEN "SUCCESS" ELSE "FAILED")]_vars

\* The methods only the host may call.
HostOnly ==
    {"move_in_queue", "remove_from_queue", "cleanup_dead_bots", "schedule_transfer",
     "cancel_scheduled_transfer", "execute_scheduled_transfer", "transfer_to",
     "update_heartbeat"}

\* C16: a method only the host may call, called by a process that is not
\* host, returns a failure ("not_host") and writes nothing: the control table
\* and the transfer history are what they were, and the caller is still not host.
C16_NotHostRejected ==
    [][(ret'.bit # ret.bit /\ ret'.op \in HostOnly /\ ~hl[ret'.p].is_host)
          => /\ ~ret'.res.success
             /\ ret'.res.msg = "not_host"
             /\ ws' = ws
             /\ history' = history
             /\ ~hl'[ret'.p].is_host]_vars

\* A queued process has called one of these methods while another process
\* holds the HOST row, and was refused.
C16_Witness ==
    /\ ret.op \in HostOnly
    /\ ret.res.msg = "not_host"
    /\ ~hl[ret.p].is_host
    /\ ws.host.id # NoId /\ ws.host.id # identity(ret.p)
    /\ identity(ret.p) \in QueueIds(ws)

\* C17: a move_in_queue(identity, p) that succeeds leaves the identity in
\* queue row p, whether it was above or below, and the other queue rows are
\* the rows they were, in the order they were in.
C17_MoveReachesPosition ==
    [][(Called("move_in_queue") /\ ret'.res.success)
         => \E c \in RowsOf(ws, ret'.arg.id) :
               /\ ret'.arg.n \in 1..Len(ws'.queue)
               /\ ws'.queue[ret'.arg.n].id = ret'.arg.id
               /\ Unnumbered(Without(ws'.queue, ret'.arg.n))
                     = Unnumbered(Without(ws.queue, c))]_vars

\* C18: called by the host, move_in_queue with a position outside 1..N (N the
\* length of the queue) or with an identity that is not queued, and
\* remove_from_queue with an identity that is not queued, return failure and
\* leave every row of the control table as it was; remove_from_queue with a
\* queued identity deletes one row of that identity and leaves the host row and
\* the other queue rows as they were, in order.
C18_QueueEditsValidated ==
    [][/\ (/\ Called("move_in_queue") /\ hl[ret'.p].is_host
           /\ (ret'.arg.id \notin QueueIds(ws) \/ ret'.arg.n \notin 1..Len(ws.queue)))
          => ~ret'.res.success /\ ws' = ws
       /\ (/\ Called("remove_from_queue") /\ hl[ret'.p].is_host
           /\ ret'.arg.id \notin QueueIds(ws))
          => ~ret'.res.success /\ ws' = ws
       /\ (/\ Called("remove_from_queue") /\ hl[ret'.p].is_host
           /\ ret'.arg.id \in QueueIds(ws))
          => /\ ret'.res.success
             /\ ws'.host = ws.host
             /\ \E k \in RowsOf(ws, ret'.arg.id) :
                   Unnumbered(ws'.queue) = Unnumbered(Without(ws.queue, k))]_vars

\* The host asked for position 3 in a queue of two and was refused.
C18_Witness ==
    /\ ret.op = "move_in_queue" /\ ret.arg.n = 3 /\ ~ret.res.success
    /\ ret.res.msg = "invalid"
    /\ Len(ws.queue) = 2 /\ ret.arg.id \in QueueIds(ws)
    /\ hl[ret.p].is_host

\* A queue row whose heartbeat is older than OFFLINE_TIMEOUT, and the others.
Stale(row) == row.id # NoId /\ row.hb # NoTime /\ row.hb > OFFLINE_TIMEOUT
Fresh(row) == ~Stale(row)

IdSeq(q) == [k \in 1..Len(q) |-> q[k].id]

\* C19: cleanup_dead_bots called by the host succeeds, deletes every queue row
\* whose heartbeat is older than OFFLINE_TIMEOUT and no other row, keeps the
\* surviving rows in their order, and returns the identities of the deleted
\* rows (their number is the count it reports).
C19_CleanupRemovesExactlyStale ==
    [][(Called("cleanup_dead_bots") /\ hl[ret'.p].is_host)
         => /\ ret'.res.success
            /\ ws'.host = ws.host
            /\ Unnumbered(ws'.queue) = Unnumbered(SelectSeq(ws.queue, Fresh))
            /\ ret'.res.removed = IdSeq(SelectSeq(ws.queue, Stale))]_vars

\* A cleanup has deleted one queue row and kept another.
C19_Witness ==
    /\ ret.op = "cleanup_dead_bots" /\ ret.res.success /\ ret.quiet = 0
    /\ Len(ret.res.removed) = 1
    /\ QueueIds(ws) # {}
    /\ ret.res.removed[1] \notin QueueIds(ws)

\* The cap of the cooldown of a quota error, in milliseconds.
CooldownCap(op) ==
    IF op = "_gspread_call" THEN 1000 * QUOTA_COOLDOWN_CAP ELSE 1000 * MAX_QUOTA_BACKOFF

\* The call that returns is a quota error, and so was the call before it, of
\* the same process through the same method.
QuotaAgain ==
    /\ ret'.bit # ret.bit /\ ret'.res.msg = "quota"
    /\ ret.res.msg = "quota" /\ ret.op = ret'.op /\ ret.p = ret'.p

\* C20: the cooldown a quota error applies (backoff plus jitter) is at most
\* the cap; from one quota error to the next, with no success in between, it
\* does not decrease; once it has been the cap it is the cap.
C20_CooldownMonotone ==
    [][/\ (ret'.bit # ret.bit /\ ret'.res.msg = "quota")
          => ret'.res.queue_position <= CooldownCap(ret'.op)
       /\ QuotaAgain
          => /\ ret'.res.queue_position >= ret.res.queue_position
             /\ ret.res.queue_position = CooldownCap(ret.op)
                   => ret'.res.queue_position = CooldownCap(ret.op)]_vars

\* C21: a read of the control table with force_refresh returns the content of
\* the store as of the call, or nothing (the empty list of a read that failed):
\* never an older snapshot, whatever the state of the cache and the cooldown.
C21_ForcedReadIsFresh ==
    [][(Called("_get_cached_data") /\ ret'.arg.force)
         => \/ ret'.res.data = Snapshot(ws)
            \/ ret'.res.data = EmptyList]_vars

\* The cache of a HostLock after _invalidate_cache.
CacheInvalid(me) == me.last_read_data = EmptyList /\ me.read_age = NoTime

\* C22: when a method of a process has written to the control table, the cache
\* of that process is invalid when the method returns, or holds the table as
\* written: its next read without force_refresh returns data with the write.
C22_WriteInvalidatesCache ==
    [][(ret'.bit # ret.bit /\ ws' # ws)
         => \/ CacheInvalid(hl'[ret'.p])
            \/ hl'[ret'.p].last_read_data = Snapshot(ws')]_vars

\* A read of the caller has met a quota error in this step: _apply_quota_cooldown
\* has raised its backoff.
QuotaHit == hl'[ret'.p].quota_backoff # hl[ret'.p].quota_backoff

\* C23: a read of the table that meets a quota error leaves a cooldown
\* running; it returns the cached table if there is one, and with no cached
\* table it returns the table of the store (a retry has succeeded) or fails,
\* never an empty table; a read that fails without a quota error leaves the
\* cooldown as it was.
C23_QuotaErrorHandling ==
    [][Called("_get_cached_data")
         => /\ QuotaHit
               => /\ hl'[ret'.p].cooldown > 0
                  /\ hl[ret'.p].last_read_data # EmptyList
                        => ret'.res.data = hl[ret'.p].last_read_data
                  /\ hl[ret'.p].last_read_data = EmptyList
                        => \/ ret'.res.data = Snapshot(ws)
                           \/ ~ret'.res.success
            /\ (ret'.res.msg = "read_error" /\ ~QuotaHit)
               => hl'[ret'.p].cooldown = hl[ret'.p].cooldown]_vars

\* C24: release_host called by a process with is_host = TRUE empties every
\* cell of the HOST row, clears is_host of the caller, and leaves the queue
\* rows, the transfer history and every other process as they were; called by
\* a process with is_host = FALSE it writes nothing.
C24_ReleaseFrame ==
    [][Called("release_host")
         => /\ history' = history
            /\ \A q \in Procs \ {ret'.p} : hl'[q] = hl[q]
            /\ ~hl'[ret'.p].is_host
            /\ IF hl[ret'.p].is_host
               THEN ws'.host = EmptyRow /\ ws'.queue = ws.queue
               ELSE ws' = ws]_vars

\* A host has released while another process was queued.
C24_Witness ==
    /\ ret.op = "release_host" /\ ret.res.msg = "released" /\ ret.quiet = 0
    /\ ws.host = EmptyRow /\ QueueIds(ws) # {}
    /\ \A q \in Procs : ~hl[q].is_host

\* What method op of process p with arguments arg does from the current state
\* when the callback delivers its notification.
Delivered(p, op, arg) ==
    CASE op = "try_acquire_host" -> try_acquire_host(Ctx(p, <<>>), p, arg.force)
      [] op = "release_host" -> release_host(Ctx(p, <<>>))
      [] op = "schedule_transfer" -> schedule_transfer(Ctx(p, <<>>), arg.n, arg.id)
      [] op = "transfer_to" -> transfer_to(Ctx(p, <<>>), p, arg.id)
      [] op = "remove_from_queue" -> remove_from_queue(Ctx(p, <<>>), arg.id)

\* C25: no method gets an exception out of _notify_event, and a method whose
\* notification callback has failed returns the result and leaves the control
\* table, the transfer history and its HostLock as it does when the callback
\* delivers the notification.
C25_NotifyFailureIsHarmless ==
    [][(ret'.bit # ret.bit)
         => /\ ret'.note # "raised"
            /\ ret'.note = "failed"
                 => \E d \in {Delivered(ret'.p, ret'.op, ret'.arg)} :
                       /\ d.note = "sent"
                       /\ ret'.res = d.res
                       /\ ws' = d.ws
                       /\ history' = d.history
                       /\ hl'[ret'.p] = d.me]_vars

\* A direct transfer has gone through although its notification failed.
C25_Witness ==
    /\ ret.op = "transfer_to" /\ ret.note = "failed" /\ ret.res.success
    /\ ret.quiet = 0
    /\ ws.host.id = ret.arg.id /\ ~hl[ret.p].is_host

\* C26: try_acquire_host called, with or without force, while the HOST row
\* holds an identity of the caller's machine returns is_host = TRUE and leaves
\* the caller host, the HOST row with an identity of that machine, a fresh
\* heartbeat and STATUS = HOST, and no queue row that was not there before.
C26_SameMachineReclaim ==
    [][(Called("try_acquire_host") /\ _is_same_machine(ret'.p, ws.host.id))
         => /\ ret'.res.success /\ ret'.res.is_host
            /\ hl'[ret'.p].is_host
            /\ _is_same_machine(ret'.p, ws'.host.id)
            /\ ws'.host.hb = 0
            /\ ws'.host.st = STATUS_HOST
            /\ Len(ws'.queue) <= Len(ws.queue)
            /\ QueueIds(ws') \subseteq QueueIds(ws)]_vars

\* C27: try_acquire_host with force returns is_host = TRUE and leaves the
\* caller host, whoever holds the HOST row, alive or not, and whether the
\* caller is in the queue or not; unless the HOST row was of the caller's own
\* machine (the reclaim of C26), the HOST row is then the caller's record.
C27_ForceOverwrites ==
    [][(Called("try_acquire_host") /\ ret'.arg.force)
         => /\ ret'.res.success /\ ret'.res.is_host
            /\ hl'[ret'.p].is_host
            /\ _is_same_machine(ret'.p, ws'.host.id)
            /\ ~_is_same_machine(ret'.p, ws.host.id)
                 => ws'.host = Row(identity(ret'.p), 0, STATUS_HOST, NoTime, NoId, NoPos)]_vars

\* C28: the _join_queue of a process that returns has appended the process as
\* the last queue row; the QUEUE_POSITION of the row and the position returned
\* are the queue length before the append plus one, which is the ordinal of the
\* row in the queue, whatever other processes have done since the join began.
C28_JoinPositionIsOrdinal ==
    [][(Called("try_acquire_host") /\ ret'.res.msg = "queued")
         => /\ Len(ws'.queue) = Len(ws.queue) + 1
            /\ ws'.queue[Len(ws'.queue)].id = identity(ret'.p)
            /\ ws'.queue[Len(ws'.queue)].qp = Str(Len(ws.queue) + 1)
            /\ ret'.res.queue_position = Len(ws.queue) + 1]_vars

\* The identities of the rows of queue q from row k on that a cleanup pass is
\* to leave in place: those that are neither older than OFFLINE_TIMEOUT nor of
\* the machine of an earlier row.
RECURSIVE CleanQueue(_, _)
CleanQueue(q, k) ==
    IF k > Len(q) THEN <<>>
    ELSE (IF /\ q[k].id # NoId
             /\ \/ Stale(q[k])
                \/ \E j \in 1..(k - 1) :
                      /\ q[j].id # NoId
                      /\ _extract_machine_id(q[j].id) = _extract_machine_id(q[k].id)
          THEN <<>> ELSE <<q[k].id>>) \o CleanQueue(q, k + 1)

\* The cleanup pass of the try_acquire_host that returns was not throttled.
UnthrottledPass ==
    /\ Called("try_acquire_host")
    /\ ret'.res.msg \notin {"already_queued", "error"}
    /\ ret'.arg.force \/ hl[ret'.p].cleanup_age >= MIN_CLEANUP_INTERVAL

\* The queue rows other than the row the caller has appended for itself.
RowsOfOthers ==
    IF ret'.res.msg = "queued" /\ ws'.queue # <<>>
    THEN SubSeq(ws'.queue, 1, Len(ws'.queue) - 1) ELSE ws'.queue

\* C29: a try_acquire_host whose cleanup pass is not throttled clears the HOST
\* row (and so finds no host and acquires) exactly when the heartbeat of the
\* HOST row is older than HOST_DEAD_TIMEOUT, and in the same pass deletes the
\* queue rows that duplicate the machine of an earlier row and those older
\* than OFFLINE_TIMEOUT, and leaves the other queue rows in place, in order.
C29_CleanupPass ==
    [][UnthrottledPass
         => /\ ws.host.id # NoId
                 => (ret'.res.msg = "acquired" <=> ws.host.hb > HOST_DEAD_TIMEOUT)
            /\ IdSeq(RowsOfOthers) = CleanQueue(ws.queue, 1)]_vars

\* The transfer scheduled in the HOST row is due: its time has passed.
TransferDue == ws.host.tat # NoTime /\ ws.host.tat <= 0

\* C30: a check_and_takeover_if_dead of an ACTIVE process (is_host) attempts
\* the scheduled transfer, which leaves a row in the transfer history, when the
\* scheduled time has passed; before that time, and when no transfer is
\* scheduled, it executes no transfer and only refreshes the heartbeat of the
\* HOST row.
C30_TransferOnlyWhenDue ==
    [][(Called("check_and_takeover_if_dead") /\ hl[ret'.p].is_host)
         => IF TransferDue
            THEN Len(history') = Len(history) + 1
            ELSE /\ history' = history
                 /\ ws' = [ws EXCEPT !.host.hb = 0]
                 /\ hl'[ret'.p].is_host]_vars

\* The last call that returned is a cancel_scheduled_transfer that succeeded:
\* no schedule_transfer has been called since.
AfterCancel == ret.op = "cancel_scheduled_transfer" /\ ret.res.success

\* C31: a cancel_scheduled_transfer that succeeds leaves both transfer fields
\* of the HOST row empty; the get_transfer_status that follows it reports
\* scheduled = false, and the check_and_takeover_if_dead that follows it
\* executes no transfer (none is logged, none replaces the HOST row).
C31_CancelStopsTransfer ==
    [][/\ (Called("cancel_scheduled_transfer") /\ ret'.res.success)
          => ws'.host.tat = NoTime /\ ws'.host.tto = NoId
       /\ (AfterCancel /\ Called("get_transfer_status")) => ~ret'.res.success
       /\ (AfterCancel /\ Called("check_and_takeover_if_dead"))
          => history' = history /\ ws'.host.tat = NoTime]_vars

\* The queue rows of table w whose heartbeat is at most OFFLINE_TIMEOUT old.
LiveRows(w) ==
    {k \in 1..Len(w.queue) : /\ w.queue[k].id # NoId
                             /\ w.queue[k].hb # NoTime
                             /\ w.queue[k].hb <= OFFLINE_TIMEOUT}

\* The transfer of the HOST row names no target, or one that is not queued.
NextViableMode == ws.host.tto = NoId \/ RowsOf(ws, ws.host.tto) = {}

\* C32: execute_scheduled_transfer called by the host with no target, or with
\* a target that is not in the queue, while some queue row has a heartbeat of
\* at most OFFLINE_TIMEOUT, succeeds and promotes the first such row in queue
\* order: the rows before it, which are older, stay in the queue.
C32_FirstLiveRowPromoted ==
    [][(/\ Called("execute_scheduled_transfer") /\ hl[ret'.p].is_host
        /\ NextViableMode /\ LiveRows(ws) # {})
         => \E k \in LiveRows(ws) :
               /\ \A j \in LiveRows(ws) : k <= j
               /\ ret'.res.success
               /\ ws'.host.id = ws.queue[k].id
               /\ Unnumbered(ws'.queue) = Unnumbered(Without(ws.queue, k))]_vars

\* A scheduled transfer has promoted a row from behind a row that is older
\* than OFFLINE_TIMEOUT, which is still the first row of the queue.
C32_Witness ==
    /\ ret.op = "execute_scheduled_transfer" /\ ret.res.success /\ ret.quiet = 0
    /\ ws.host.id # identity(ret.p) /\ ws.host.hb = 0
    /\ ret.arg.id # ws.host.id
    /\ Len(ws.queue) >= 1 /\ ws.queue[1].id # NoId
    /\ ws.queue[1].hb > OFFLINE_TIMEOUT

\* C33: execute_scheduled_transfer returns after at most MAX_TRANSFER_ATTEMPTS
\* iterations of its loop, whatever the queue holds and whichever reads and
\* writes of the store fail: the fallback from a missing target and the retry
\* with no candidate are iterations that count; a transfer that succeeds has
\* taken at least one.
C33_AttemptsBounded ==
    [][Called("execute_scheduled_transfer")
         => /\ ret'.arg.n <= MAX_TRANSFER_ATTEMPTS
            /\ ret'.res.success => ret'.arg.n >= 1]_vars

\* A transfer to a target that had left the queue has given up after the
\* fallback and the retries with no candidate: three iterations.
C33_Witness ==
    /\ ret.op = "execute_scheduled_transfer" /\ ~ret.res.success /\ ret.quiet = 0
    /\ ret.arg.id # NoId /\ ret.arg.id \notin QueueIds(ws)
    /\ ret.arg.n = MAX_TRANSFER_ATTEMPTS

\* Process p is ACTIVE, and the HOST row has been cleared or holds the identity
\* of another machine.
HostRowLost(p) ==
    hl[p].is_host /\ (ws.host.id = NoId \/ ~_is_same_machine(p, ws.host.id))

\* C34: the update_host_heartbeat of an ACTIVE process whose HOST row has been
\* cleared or taken by another machine does not refresh the heartbeat of the
\* row: the process ends the cycle not ACTIVE and with the HOST row as it was,
\* or as the host that try_acquire_host has made of it again, the HOST row
\* holding its own identity.
C34_LostHostObserved ==
    [][(Called("update_host_heartbeat") /\ HostRowLost(ret'.p))
         => \/ ~hl'[ret'.p].is_host /\ ws'.host = ws.host
            \/ /\ hl'[ret'.p].is_host
               /\ ret'.res.msg \in HandOver
               /\ ws'.host.id = identity(ret'.p)]_vars


\* The rows of the queue that carry the identity of process p.
OwnQueueRows(w, p) == {k \in 1..Len(w.queue) : w.queue[k].id = identity(p)}

\* C35: a poll of the monitoring loop (check_and_takeover_if_dead) by a process
\* that is in the queue and stays in it refreshes the last_heartbeat of its
\* queue row: after the poll the row's heartbeat is the time of the poll, so
\* the row of a polling process never gets older than the poll interval.
C35_PollRefreshesQueueRow ==
    [][(Called("monitor_loop") /\ OwnQueueRows(ws, ret'.p) # {}
          /\ ~hl'[ret'.p].is_host)
         => \A k \in OwnQueueRows(ws', ret'.p) : ws'.queue[k].hb = 0]_vars


\* C36: release_host and update_heartbeat change the HOST row only when the row
\* holds the caller's own identity at the time of the call: a process whose
\* ACTIVE flag is stale never clears or refreshes the row of another process.
C36_OnlyOwnHostRowWritten ==
    [][((Called("release_host") \/ Called("update_heartbeat")) /\ ws'.host # ws.host)
         => ws.host.id = identity(ret'.p)]_vars


\* C37: in every reachable state of the control table a HOST row with a
\* non-empty identity has STATUS = HOST and an empty QUEUE_POSITION.
C37_HostRowWellFormed ==
    ws.host.id # NoId => ws.host.st = STATUS_HOST /\ ws.host.qp = NoPos


\* C38: whenever try_acquire_host returns is_host true to a process, on the
\* acquired, the recovered-session and the forced path, the IDENTITY cell of
\* the HOST row holds that process's own identity (machine id and pid).
C38_HostRowNamesNewHost ==
    [][(Called("try_acquire_host") /\ ret'.res.is_host)
         => ws'.host.id = identity(ret'.p)]_vars


\* C39: while the cooldown window of a HostLock is active, a read of the table
\* through _get_cached_data issues no call to the store, whatever the state of
\* its cache, also right after one of its own writes has invalidated the cache.
C39_NoStoreReadInCooldown ==
    [][(Called("_get_cached_data") /\ hl[ret'.p].cooldown > 0)
         => ret'.arg.n = 0]_vars


\* C40: for every process and every identity string "user@host (PID:n)",
\* _is_same_machine(identity) is true exactly when the machine id of the
\* identity, the text before " (PID:" as _extract_machine_id returns it, equals
\* the machine_id of the process.
C40_SameMachineIsEqualMachineId ==
    [][Called("_is_same_machine")
         => (ret'.res.success <=> _extract_machine_id(ret'.arg.id) = machine_id(ret'.p))]_vars

====
